---- MODULE Spec2Model ----
(***************************************************************************)
(* MetricsCalculator of perception_online_evaluator: the object history    *)
(* store (object_map_), the history paths (history_path_map_), the debug   *)
(* cache (debug_target_object_) and the three deviation metrics.           *)
(*                                                                         *)
(* Time stamps and durations are integers (ticks).  Positions are integer  *)
(* pairs in units of 1/Unit, so that the moving average of the path        *)
(* smoother divides exactly.  A pose whose coordinates are not finite      *)
(* (NaN, infinity) carries finite = FALSE.  The z coordinate is averaged   *)
(* like x and y by the code and read by no metric; it is left out.         *)
(***************************************************************************)
EXTENDS Integers, Sequences, FiniteSets, TLC

VARIABLES
    object_map_,           \* uuid -> (stamp -> PredictedObject)
    history_path_map_,     \* uuid -> <<raw path, smoothed path>>
    debug_target_object_,  \* uuid -> ObjectData
    current_stamp_,        \* stamp of the last batch
    prediction_time_horizons, \* parameters_->prediction_time_horizons
    ret                    \* outcome of the last call

vars == <<object_map_, history_path_map_, debug_target_object_, current_stamp_,
          prediction_time_horizons, ret>>

----------------------------------------------------------------------------
(* Bounds and input domains *)

MaxTime == 3

Times == 0..MaxTime

Uuids == {"a", "b"}

Metrics == {"lateral_deviation", "yaw_deviation", "predicted_path_deviation"}

HorizonConfigs == {<<>>, <<1>>, <<1, 2>>}

smoothing_window_size == 2

\* the window sizes the smoother is applied with on its own
WindowSizes == {0, 1, 2, 3, 4, 5}

\* std::numeric_limits<int64_t>::max() nanoseconds, cut to the 32-bit integers of TLC
DurationMax == 2147483647

\* size_t arithmetic wraps modulo SizeModulus (2^64 in the build; any modulus
\* larger than every path length gives the same comparisons)
SizeModulus == 2^30

----------------------------------------------------------------------------
(* Small helpers *)

Max(S) == CHOOSE m \in S : \A x \in S : x <= m

Min(S) == CHOOSE m \in S : \A x \in S : m <= x

Abs(n) == IF n < 0 THEN -n ELSE n

Range(s) == {s[i] : i \in 1..Len(s)}

RECURSIVE Gcd(_, _)
Gcd(m, n) == IF n = 0 THEN m ELSE Gcd(n, m % n)

Lcm(m, n) == (m * n) \div Gcd(m, n)

RECURSIVE LcmUpTo(_)
LcmUpTo(n) == IF n <= 1 THEN 1 ELSE Lcm(LcmUpTo(n - 1), n)

\* one distance unit, in position units: every window of the smoother divides it
Unit == LcmUpTo(2 * (Max(WindowSizes \cup {smoothing_window_size}) \div 2) + 1)

\* sqrt(n / d) in whole position units: exact where the root is whole, rounded
\* up to the next unit elsewhere (so that only an exact zero reads as zero)
RECURSIVE SqrtUpper(_, _, _)
SqrtUpper(n, d, hi) == IF hi * hi * d >= n THEN hi ELSE SqrtUpper(n, d, 2 * hi)

\* the smallest r of lo..hi with r * r * d >= n, which hi satisfies
RECURSIVE SqrtSearch(_, _, _, _)
SqrtSearch(n, d, lo, hi) ==
    IF lo >= hi THEN hi
    ELSE IF ((lo + hi) \div 2) * ((lo + hi) \div 2) * d >= n
    THEN SqrtSearch(n, d, lo, (lo + hi) \div 2)
    ELSE SqrtSearch(n, d, (lo + hi) \div 2 + 1, hi)

SqrtBelow(n, d, hi) == SqrtSearch(n, d, hi \div 2, hi)

SqrtRatio(n, d) == IF n = 0 THEN 0 ELSE SqrtBelow(n, d, SqrtUpper(n, d, 1))

Sqrt(n) == SqrtRatio(n, 1)

\* the empty map
EmptyMap == [k \in {} |-> 0]

\* m with key k set to v (operator[] followed by assignment)
Put(m, k, v) == [x \in DOMAIN m \cup {k} |-> IF x = k THEN v ELSE m[x]]

\* m without key k (erase)
Erase(m, k) == [x \in DOMAIN m \ {k} |-> m[x]]

\* the keys of an ordered std::map, in increasing order
RECURSIVE SortedSeq(_)
SortedSeq(S) == IF S = {} THEN <<>> ELSE <<Min(S)>> \o SortedSeq(S \ {Min(S)})

\* all iteration orders of an unordered_map with key set S
RECURSIVE Orders(_)
Orders(S) == IF S = {} THEN {<<>>}
             ELSE UNION {{<<k>> \o o : o \in Orders(S \ {k})} : k \in S}

----------------------------------------------------------------------------
(* Messages *)

Point(px, py) == [x |-> px * Unit, y |-> py * Unit, finite |-> TRUE]

NaNPoint == [x |-> 0, y |-> 0, finite |-> FALSE]

\* orientation: the heading as a direction vector (yaw = atan2(dy, dx))
Heading(dx, dy) == <<dx, dy>>

MkPose(p, o) == [position |-> p, orientation |-> o]

PredictedPath(step, poses) == [time_step |-> step, path |-> poses]

PredictedObject(id, label, pose, paths) ==
    [object_id |-> id, label |-> label, pose |-> pose, predicted_paths |-> paths]

\* the objects the batches are made of: a car with one predicted path along its
\* motion; a car whose first predicted path is empty and whose second starts
\* with a non-finite pose; an object of a label that is not checked
ObjectA ==
    PredictedObject("a", "CAR", MkPose(Point(0, 0), Heading(1, 0)),
        << PredictedPath(1, << MkPose(Point(0, 0), Heading(1, 0)),
                               MkPose(Point(1, 0), Heading(1, 0)) >>) >>)

ObjectB ==
    PredictedObject("b", "CAR", MkPose(Point(1, 0), Heading(1, 0)),
        << PredictedPath(1, << >>),
           PredictedPath(1, << MkPose(NaNPoint, Heading(1, 0)),
                               MkPose(Point(2, 0), Heading(1, 0)) >>) >>)

ObjectU ==
    PredictedObject("b", "UNKNOWN", MkPose(Point(0, 0), Heading(1, 0)), << >>)

Objects == {ObjectA, ObjectB, ObjectU}

\* objects.objects of the batches received
Batches == {<<>>, <<ObjectA>>, <<ObjectB>>, <<ObjectU>>, <<ObjectA, ObjectB>>,
            <<ObjectU, ObjectA>>}

\* parameters_->object_parameters: the labels whose objects are checked
DeviationCheckLabels == {"CAR"}

----------------------------------------------------------------------------
(* Path smoother *)

\* a - b in size_t
SizeSub(a, b) == (a - b + SizeModulus) % SizeModulus

RECURSIVE SumOver(_, _, _)
SumOver(path, idx, coord) ==
    IF idx = {} THEN 0
    ELSE LET j == CHOOSE j \in idx : TRUE
         IN  (IF coord = "x" THEN path[j + 1].position.x ELSE path[j + 1].position.y)
             + SumOver(path, idx \ {j}, coord)

\* the window with i - half_window computed in signed integers
WindowIndicesSigned(i, size, half_window) ==
    {j \in 0..(size - 1) : i - half_window <= j /\ j <= i + half_window}

\* the indices j of the inner loop for index i (0-based): from
\* std::max(i - half_window, 0) to std::min(i + half_window, size - 1)
WindowIndices(i, size, half_window) ==
    LET first == Max({SizeSub(i, half_window), 0})
        last  == Min({i + half_window, size - 1})
    IN  {j \in 0..(size - 1) : first <= j /\ j <= last}

\* first pass: the averaged pose at index i (0-based), orientation kept
AveragePose(path, i, half_window) ==
    LET idx          == WindowIndices(i, Len(path), half_window)
        valid_points == Cardinality(idx)
    IN  IF valid_points > 0
        THEN [position |->
                [x |-> SumOver(path, idx, "x") \div valid_points,
                 y |-> SumOver(path, idx, "y") \div valid_points,
                 finite |-> \A j \in idx : path[j + 1].position.finite],
              orientation |-> path[i + 1].orientation]
        ELSE [position |-> path[i + 1].position,
              orientation |-> path[i + 1].orientation]

\* squared 2-D distance, in squared position units
SqDistance2d(p, q) == (p.x - q.x) * (p.x - q.x) + (p.y - q.y) * (p.y - q.y)

\* calcDistance2d(p, q) < 0.1 (0.1 distance units = Unit / 10 position units)
CloserThanThreshold(p, q) == 100 * SqDistance2d(p, q) < Unit * Unit

\* createQuaternionFromYaw(calcAzimuthAngle(p, q)): the bearing from p to q
calcAzimuthAngle(p, q) ==
    LET dx == q.x - p.x
        dy == q.y - p.y
        g  == Gcd(Abs(dx), Abs(dy))
    IN  IF g = 0 THEN Heading(1, 0) ELSE Heading(dx \div g, dy \div g)

\* a second pass that copies the orientation of the pose before when the
\* pose after is too close
RECURSIVE OrientationPassNextClose(_, _)
OrientationPassNextClose(filtered_path, i) ==
    IF i >= Len(filtered_path) THEN filtered_path
    ELSE LET p == filtered_path[i + 1]
             o == IF i > 0 /\ i < Len(filtered_path) - 1
                     /\ CloserThanThreshold(p.position, filtered_path[i + 2].position)
                  THEN filtered_path[i].orientation
                  ELSE IF i < Len(filtered_path) - 1
                  THEN calcAzimuthAngle(p.position, filtered_path[i + 2].position)
                  ELSE IF Len(filtered_path) > 1
                  THEN filtered_path[i].orientation
                  ELSE p.orientation
         IN  OrientationPassNextClose([filtered_path EXCEPT ![i + 1].orientation = o], i + 1)

\* second pass, in place, from index i (0-based) on
RECURSIVE OrientationPass(_, _)
OrientationPass(filtered_path, i) ==
    IF i >= Len(filtered_path) THEN filtered_path
    ELSE LET p == filtered_path[i + 1]
             o == IF i > 0 /\ CloserThanThreshold(filtered_path[i].position, p.position)
                  THEN filtered_path[i].orientation
                  ELSE IF i < Len(filtered_path) - 1
                  THEN calcAzimuthAngle(p.position, filtered_path[i + 2].position)
                  ELSE IF Len(filtered_path) > 1
                  THEN filtered_path[i].orientation
                  ELSE p.orientation
         IN  OrientationPass([filtered_path EXCEPT ![i + 1].orientation = o], i + 1)

\* a smoother whose window reaches window_size poses to either side
averageFilterPathWideWindow(path, window_size) ==
    OrientationPass([k \in 1..Len(path) |-> AveragePose(path, k - 1, window_size)], 0)

averageFilterPath(path, window_size) ==
    LET half_window == window_size \div 2
        averaged    == [k \in 1..Len(path) |-> AveragePose(path, k - 1, half_window)]
    IN  OrientationPass(averaged, 0)

----------------------------------------------------------------------------
(* Object history store *)

\* parameters_->prediction_time_horizons is empty: getTimeDelay throws
getTimeDelayThrows(horizons) == horizons = <<>>

getTimeDelay(horizons) == Max(Range(horizons))

\* the horizon lists with a time delay
DelayConfigs == {h \in HorizonConfigs : ~getTimeDelayThrows(h)}

\* an insertion that keeps the entry already stored at the stamp
updateObjectsInsert(object_map, uuid, stamp, object) ==
    IF uuid \in DOMAIN object_map /\ stamp \in DOMAIN object_map[uuid]
    THEN object_map
    ELSE Put(object_map, uuid,
             Put(IF uuid \in DOMAIN object_map THEN object_map[uuid] ELSE EmptyMap,
                 stamp, object))

\* object_map_[uuid][stamp] = object
updateObjects(object_map, uuid, stamp, object) ==
    Put(object_map, uuid,
        Put(IF uuid \in DOMAIN object_map THEN object_map[uuid] ELSE EmptyMap,
            stamp, object))

\* the objects of the batch that are checked for deviation
filterDeviationCheckObjects(objects) ==
    SelectSeq(objects, LAMBDA o : o.label \in DeviationCheckLabels)

\* the loop of setPredictedObjects over the filtered batch
RECURSIVE IngestAll(_, _, _)
IngestAll(object_map, objects, stamp) ==
    IF objects = <<>> THEN object_map
    ELSE IngestAll(updateObjects(object_map, Head(objects).object_id, stamp, Head(objects)),
                   Tail(objects), stamp)

\* an eviction that stops at the last entry of the track
EraseOldPrefixKeepNewest(stamp_and_objects, cutoff) ==
    [t \in {t \in DOMAIN stamp_and_objects :
                t >= cutoff \/ t = Max(DOMAIN stamp_and_objects)} |-> stamp_and_objects[t]]

\* an eviction that also erases the entry exactly at the cutoff
EraseOldPrefixInclusive(stamp_and_objects, cutoff) ==
    [t \in {t \in DOMAIN stamp_and_objects : t > cutoff} |-> stamp_and_objects[t]]

\* an eviction that erases the first entry of a track before it tests the
\* cutoff (a do-while loop)
EraseOldPrefixDoWhile(stamp_and_objects, cutoff) ==
    [t \in {t \in DOMAIN stamp_and_objects :
                t >= cutoff /\ t # Min(DOMAIN stamp_and_objects)} |-> stamp_and_objects[t]]

\* the inner loop of deleteOldObjects: erase from begin() while older than the cutoff
RECURSIVE EraseOldPrefix(_, _)
EraseOldPrefix(stamp_and_objects, cutoff) ==
    IF DOMAIN stamp_and_objects = {} THEN stamp_and_objects
    ELSE LET first == Min(DOMAIN stamp_and_objects)
         IN  IF first < cutoff
             THEN EraseOldPrefix(Erase(stamp_and_objects, first), cutoff)
             ELSE stamp_and_objects

\* an eviction that leaves the debug cache of a purged key behind
deleteOldObjectsKeepDebug(object_map, history_path_map, debug_target_object, stamp, time_delay) ==
    LET trimmed == [uuid \in DOMAIN object_map |->
                      EraseOldPrefix(object_map[uuid], stamp - time_delay * 2)]
        emptied == {uuid \in DOMAIN trimmed : DOMAIN trimmed[uuid] = {}}
    IN  [object_map          |-> [uuid \in DOMAIN trimmed \ emptied |-> trimmed[uuid]],
         history_path_map    |-> [uuid \in DOMAIN history_path_map \ emptied |->
                                    history_path_map[uuid]],
         debug_target_object |-> debug_target_object]

\* deleteOldObjects, given the time delay: the three maps afterwards
deleteOldObjects(object_map, history_path_map, debug_target_object, stamp, time_delay) ==
    LET trimmed == [uuid \in DOMAIN object_map |->
                      EraseOldPrefix(object_map[uuid], stamp - time_delay * 2)]
        emptied == {uuid \in DOMAIN trimmed : DOMAIN trimmed[uuid] = {}}
    IN  [object_map          |-> [uuid \in DOMAIN trimmed \ emptied |-> trimmed[uuid]],
         history_path_map    |-> [uuid \in DOMAIN history_path_map \ emptied |->
                                    history_path_map[uuid]],
         debug_target_object |-> [uuid \in DOMAIN debug_target_object \ emptied |->
                                    debug_target_object[uuid]]]

\* a history path that lists the newest pose first
RawHistoryPathNewestFirst(stamp_and_objects) ==
    LET stamps == SortedSeq(DOMAIN stamp_and_objects)
    IN  [k \in 1..Len(stamps) |-> stamp_and_objects[stamps[Len(stamps) + 1 - k]].pose]

\* the poses of a track in stamp order
RawHistoryPath(stamp_and_objects) ==
    LET stamps == SortedSeq(DOMAIN stamp_and_objects)
    IN  [k \in 1..Len(stamps) |-> stamp_and_objects[stamps[k]].pose]

updateHistoryPath(object_map, history_path_map, window_size) ==
    [uuid \in DOMAIN history_path_map \cup DOMAIN object_map |->
        IF uuid \in DOMAIN object_map
        THEN LET history_path == RawHistoryPath(object_map[uuid])
             IN  <<history_path, averageFilterPath(history_path, window_size)>>
        ELSE history_path_map[uuid]]

----------------------------------------------------------------------------
(* Queries on the store *)

\* rclcpp::Time(): the value getClosestStamp returns when no track has an entry
DefaultStamp == 0

\* a test that requires the oldest stamp to be earlier than stamp
hasPassedTimeOfEarlier(object_map, uuid, stamp) ==
    IF uuid \notin DOMAIN object_map THEN FALSE
    ELSE Min(DOMAIN object_map[uuid]) < stamp

\* hasPassedTime(uuid, stamp)
hasPassedTimeOf(object_map, uuid, stamp) ==
    IF uuid \notin DOMAIN object_map THEN FALSE
    ELSE Min(DOMAIN object_map[uuid]) <= stamp

\* hasPassedTime(stamp)
hasPassedTime(object_map, stamp) ==
    LET timestamps == {Min(DOMAIN object_map[uuid]) :
                          uuid \in {u \in DOMAIN object_map : DOMAIN object_map[u] # {}}}
    IN  IF timestamps # {} /\ Min(timestamps) > stamp THEN FALSE ELSE TRUE

\* a scan that looks at the lower bound of a track only, not at its predecessor
ClosestInTrackUpperOnly(stamp_and_objects, stamp, min_duration, closest_stamp) ==
    LET not_less == {t \in DOMAIN stamp_and_objects : ~(t < stamp)}
    IN  IF not_less # {} /\ Abs(Min(not_less) - stamp) < min_duration
        THEN <<Min(not_less) - stamp, Min(not_less)>>
        ELSE <<min_duration, closest_stamp>>

\* one track of the loop of getClosestStamp: <<min_duration, closest_stamp>> afterwards
ClosestInTrack(stamp_and_objects, stamp, min_duration, closest_stamp) ==
    LET not_less == {t \in DOMAIN stamp_and_objects : ~(t < stamp)}
        less     == {t \in DOMAIN stamp_and_objects : t < stamp}
        upper    == IF not_less # {} /\ Abs(Min(not_less) - stamp) < min_duration
                    THEN <<Min(not_less) - stamp, Min(not_less)>>
                    ELSE <<min_duration, closest_stamp>>
    IN  IF less # {} /\ Abs(stamp - Max(less)) < upper[1]
        THEN <<stamp - Max(less), Max(less)>>
        ELSE upper

\* the loop of getClosestStamp over object_map_ in iteration order; closest is
\* <<min_duration, closest_stamp>>
RECURSIVE ClosestLoop(_, _, _, _)
ClosestLoop(object_map, order, stamp, closest) ==
    IF order = <<>> THEN closest[2]
    ELSE ClosestLoop(object_map, Tail(order), stamp,
             IF DOMAIN object_map[Head(order)] # {}
             THEN ClosestInTrack(object_map[Head(order)], stamp, closest[1], closest[2])
             ELSE closest)

\* getClosestStamp(stamp); order is the iteration order of object_map_
getClosestStamp(object_map, order, stamp) ==
    ClosestLoop(object_map, order, stamp, <<DurationMax, DefaultStamp>>)

\* std::lower_bound on a track followed by the test "it != end && it->first == stamp"
HasEntryAt(stamp_and_objects, stamp) ==
    LET not_less == {t \in DOMAIN stamp_and_objects : ~(t < stamp)}
    IN  not_less # {} /\ Min(not_less) = stamp

\* the lookup of getObjectByStamp once closest_stamp is known
EntryAt(object_map, uuid, closest_stamp) ==
    IF uuid \notin DOMAIN object_map THEN [kind |-> "out_of_range"]
    ELSE IF HasEntryAt(object_map[uuid], closest_stamp)
    THEN [kind |-> "value", object |-> object_map[uuid][closest_stamp]]
    ELSE [kind |-> "nullopt"]

\* a lookup of the requested stamp itself, without getClosestStamp
getObjectByStampExact(object_map, order, uuid, stamp) ==
    EntryAt(object_map, uuid, stamp)

\* a lookup that takes the entry at the closest stamp from the first track in
\* iteration order that holds one, not from the track of uuid
getObjectByStampAnyTrack(object_map, order, uuid, stamp) ==
    LET closest_stamp == getClosestStamp(object_map, order, stamp)
        holders == SelectSeq(order, LAMBDA u : HasEntryAt(object_map[u], closest_stamp))
    IN  EntryAt(object_map, IF holders = <<>> THEN uuid ELSE Head(holders), closest_stamp)

\* getObjectByStamp(uuid, stamp): object_map_.at(uuid) throws for a uuid not in the map
getObjectByStamp(object_map, order, uuid, stamp) ==
    EntryAt(object_map, uuid, getClosestStamp(object_map, order, stamp))

\* a batch that takes the lower bound of each track without the test for equality
EntriesAtLowerBound(object_map, order, stamp, closest_stamp) ==
    LET NotLess(uuid) == {t \in DOMAIN object_map[uuid] : ~(t < closest_stamp)}
        hits == SelectSeq(order, LAMBDA uuid : NotLess(uuid) # {})
    IN  [stamp   |-> stamp,
         objects |-> [k \in 1..Len(hits) |-> object_map[hits[k]][Min(NotLess(hits[k]))]]]

\* the loop of getObjectsByStamp once closest_stamp is known: header stamp and
\* the objects, in iteration order
EntriesAt(object_map, order, stamp, closest_stamp) ==
    LET hits == SelectSeq(order, LAMBDA uuid : HasEntryAt(object_map[uuid], closest_stamp))
    IN  [stamp   |-> stamp,
         objects |-> [k \in 1..Len(hits) |-> object_map[hits[k]][closest_stamp]]]


\* getObjectsByStamp(stamp)
getObjectsByStamp(object_map, order, stamp) ==
    EntriesAt(object_map, order, stamp, getClosestStamp(object_map, order, stamp))

----------------------------------------------------------------------------
(* Doubles and statistics *)

\* a double: a finite value (in position units) or a non-finite one (NaN, infinity)
D(v) == [finite |-> TRUE, value |-> v]

NaN == [finite |-> FALSE, value |-> 0]

\* a + b
AddD(a, b) == IF a.finite /\ b.finite THEN D(a.value + b.value) ELSE NaN

\* a < b: false whenever an operand is NaN
LessD(a, b) == a.finite /\ b.finite /\ a.value < b.value

\* std::numeric_limits<double>::max()
DoubleMax == D(DurationMax)

\* a distance that is left squared
calcSquaredDistance2d(p, q) ==
    IF p.finite /\ q.finite THEN D(SqDistance2d(p, q)) ELSE NaN

\* tier4_autoware_utils::calcDistance2d
calcDistance2d(p, q) ==
    IF p.finite /\ q.finite THEN D(Sqrt(SqDistance2d(p, q))) ELSE NaN

\* std::accumulate(deviations.begin(), deviations.end(), 0.0)
RECURSIVE Accumulate(_)
Accumulate(deviations) ==
    IF deviations = <<>> THEN D(0)
    ELSE AddD(deviations[1], Accumulate(Tail(deviations)))

\* Stat<double>{}: count and sum of the added values (mean = sum / count)
EmptyStat == [count |-> 0, sum |-> D(0)]

\* stat.add(value)
StatAdd(stat, value) == [count |-> stat.count + 1, sum |-> AddD(stat.sum, value)]

RECURSIVE StatAddAll(_, _)
StatAddAll(stat, values) ==
    IF values = <<>> THEN stat
    ELSE StatAddAll(StatAdd(stat, Head(values)), Tail(values))

----------------------------------------------------------------------------
(* Lateral and yaw deviation from the smoothed history path *)

\* motion_utils::findNearestIndex: the first index (1-based) at minimum distance
findNearestIndex(path, point) ==
    Min({k \in 1..Len(path) :
            \A m \in 1..Len(path) :
                SqDistance2d(path[k].position, point) <= SqDistance2d(path[m].position, point)})

Square(n) == n * n

\* the distance of point from the line through base along its heading:
\* |cross product of the heading with the vector to the point| / |heading|
LateralFrom(base, point) ==
    D(SqrtRatio(Square(base.orientation[1] * (point.y - base.position.y)
                       - base.orientation[2] * (point.x - base.position.x)),
                Square(base.orientation[1]) + Square(base.orientation[2])))

\* metrics::calcLateralDeviation: the lateral offset of the object from the
\* nearest path pose
calcLateralDeviation(path, pose) ==
    LateralFrom(path[findNearestIndex(path, pose.position)], pose.position)

\* the angle between two headings in degrees: exact at the multiples of 45
\* degrees, rounded up to the next multiple elsewhere
AngleBetween(u, v) ==
    LET cross == Abs(u[1] * v[2] - u[2] * v[1])
        dot   == u[1] * v[1] + u[2] * v[2]
    IN  IF cross = 0 /\ dot > 0 THEN 0
        ELSE IF dot > 0 /\ cross <= dot THEN 45
        ELSE IF dot >= 0 THEN 90
        ELSE IF cross >= -dot THEN 135
        ELSE 180

\* metrics::calcYawDeviation: |yaw of the object - yaw of the nearest path pose|
calcYawDeviation(path, pose) ==
    D(AngleBetween(path[findNearestIndex(path, pose.position)].orientation,
                   pose.orientation))

\* the loop of calcLateralDeviationMetrics / calcYawDeviationMetrics over the
\* objects from index k on: history_path_map_.at(uuid) throws for a missing uuid
RECURSIVE DeviationLoop(_, _, _, _, _, _)
DeviationLoop(object_map, history_path_map, objects, k, kind, stat) ==
    IF k > Len(objects.objects) THEN [kind |-> "value", stat |-> stat]
    ELSE LET object == objects.objects[k]
             uuid   == object.object_id
         IN  IF ~hasPassedTimeOf(object_map, uuid, objects.stamp)
             THEN DeviationLoop(object_map, history_path_map, objects, k + 1, kind, stat)
             ELSE IF uuid \notin DOMAIN history_path_map
             THEN [kind |-> "out_of_range"]
             ELSE LET history_path == history_path_map[uuid][2]
                  IN  IF history_path = <<>>
                      THEN DeviationLoop(object_map, history_path_map, objects, k + 1,
                                         kind, stat)
                      ELSE DeviationLoop(object_map, history_path_map, objects, k + 1, kind,
                             StatAdd(stat,
                               IF kind = "lateral_deviation"
                               THEN calcLateralDeviation(history_path, object.pose)
                               ELSE calcYawDeviation(history_path, object.pose)))

\* a lateral deviation that assigns no entry when the statistic holds no value
calcLateralDeviationMetricsOmitEmpty(object_map, history_path_map, objects) ==
    LET r == DeviationLoop(object_map, history_path_map, objects, 1,
                           "lateral_deviation", EmptyStat)
    IN  IF r.kind # "value" THEN r
        ELSE [kind |-> "value",
              map  |-> IF r.stat.count = 0 THEN EmptyMap
                       ELSE Put(EmptyMap, "lateral_deviation", r.stat)]

\* calcLateralDeviationMetrics: the entry is assigned whatever the statistic holds
calcLateralDeviationMetrics(object_map, history_path_map, objects) ==
    LET r == DeviationLoop(object_map, history_path_map, objects, 1,
                           "lateral_deviation", EmptyStat)
    IN  IF r.kind # "value" THEN r
        ELSE [kind |-> "value", map |-> Put(EmptyMap, "lateral_deviation", r.stat)]

\* calcYawDeviationMetrics
calcYawDeviationMetrics(object_map, history_path_map, objects) ==
    LET r == DeviationLoop(object_map, history_path_map, objects, 1,
                           "yaw_deviation", EmptyStat)
    IN  IF r.kind # "value" THEN r
        ELSE [kind |-> "value", map |-> Put(EmptyMap, "yaw_deviation", r.stat)]

----------------------------------------------------------------------------
(* Predicted path deviation *)

\* the largest number of predicted paths of an object
MaxPaths == Max({Len(o.predicted_paths) : o \in Objects})

\* the iteration orders of the per-object map keyed by path index
PathOrders == Orders(0..(MaxPaths - 1))

\* lines 252-265 for one pose: the pair <<predicted pose, history pose>> is
\* recorded when getObjectByStamp returned an object
RecordPair(predicted_pose, history_object_opt, rest) ==
    IF history_object_opt.kind # "value" THEN rest
    ELSE << <<predicted_pose, history_object_opt.object.pose>> >> \o rest

\* a walk that a miss ends
RECURSIVE WalkPathEndedByMiss(_, _, _, _, _, _, _)
WalkPathEndedByMiss(object_map, order, uuid, stamp, predicted_path, time_horizon, j) ==
    IF j >= Len(predicted_path.path) THEN <<>>
    ELSE IF predicted_path.time_step * j > time_horizon THEN <<>>
    ELSE IF ~hasPassedTimeOf(object_map, uuid, stamp + predicted_path.time_step * j)
    THEN <<>>
    ELSE IF getObjectByStamp(object_map, order, uuid,
                             stamp + predicted_path.time_step * j).kind # "value"
    THEN <<>>
    ELSE RecordPair(predicted_path.path[j + 1],
                    getObjectByStamp(object_map, order, uuid,
                                     stamp + predicted_path.time_step * j),
                    WalkPathEndedByMiss(object_map, order, uuid, stamp, predicted_path,
                                        time_horizon, j + 1))

\* the loop over the poses of one predicted path from index j (0-based) on: the
\* pairs <<predicted pose, history pose>> recorded
RECURSIVE WalkPath(_, _, _, _, _, _, _)
WalkPath(object_map, order, uuid, stamp, predicted_path, time_horizon, j) ==
    IF j >= Len(predicted_path.path) THEN <<>>
    ELSE IF predicted_path.time_step * j > time_horizon THEN <<>>
    ELSE IF ~hasPassedTimeOf(object_map, uuid, stamp + predicted_path.time_step * j)
    THEN WalkPath(object_map, order, uuid, stamp, predicted_path, time_horizon, j + 1)
    ELSE RecordPair(predicted_path.path[j + 1],
                    getObjectByStamp(object_map, order, uuid,
                                     stamp + predicted_path.time_step * j),
                    WalkPath(object_map, order, uuid, stamp, predicted_path,
                             time_horizon, j + 1))

\* the loop over the predicted paths of one object from index i (0-based) on:
\* the recorded pairs of each path, in path order (debug_predicted_path_pairs_map
\* of the object; a path that recorded nothing has no entry in the maps)
RECURSIVE PathPairs(_, _, _, _, _, _)
PathPairs(object_map, order, object, stamp, time_horizon, i) ==
    IF i >= Len(object.predicted_paths) THEN <<>>
    ELSE << WalkPath(object_map, order, object.object_id, stamp,
                     object.predicted_paths[i + 1], time_horizon, 0) >>
         \o PathPairs(object_map, order, object, stamp, time_horizon, i + 1)

\* the distances recorded with the pairs of one path
RECURSIVE Distances(_)
Distances(pairs) ==
    IF pairs = <<>> THEN <<>>
    ELSE << calcDistance2d(pairs[1][1].position, pairs[1][2].position) >>
         \o Distances(Tail(pairs))

\* a selection by the mean of the recorded distances
SelectStepByMean(i, deviations, sum, min_deviation_index, min_sum_deviation) ==
    IF deviations # <<>>
       /\ LessD(IF sum.finite THEN D(sum.value \div Len(deviations)) ELSE NaN,
                min_sum_deviation)
    THEN <<i, IF sum.finite THEN D(sum.value \div Len(deviations)) ELSE NaN>>
    ELSE <<min_deviation_index, min_sum_deviation>>

\* lines 274-281 for one path: <<min_deviation_index, min_sum_deviation>> afterwards
SelectStep(i, deviations, sum, min_deviation_index, min_sum_deviation) ==
    IF deviations # <<>> /\ LessD(sum, min_sum_deviation)
    THEN <<i, sum>>
    ELSE <<min_deviation_index, min_sum_deviation>>

\* the selection loop over the recorded paths of one object, visited in
\* path_order; selected is <<min_deviation_index, min_sum_deviation>>
RECURSIVE SelectPath(_, _, _)
SelectPath(path_pairs, path_order, selected) ==
    IF path_order = <<>> THEN selected[1]
    ELSE SelectPath(path_pairs, Tail(path_order),
             SelectStep(Head(path_order),
                        Distances(path_pairs[Head(path_order) + 1]),
                        Accumulate(Distances(path_pairs[Head(path_order) + 1])),
                        selected[1], selected[2]))

\* the path indices (0-based) that recorded a distance: the keys of
\* deviation_map_for_paths[uuid]
RecordedPaths(path_pairs) == {i \in 0..(Len(path_pairs) - 1) : path_pairs[i + 1] # <<>>}

\* path_order restricted to the keys of deviation_map_for_paths[uuid]
RecordedOrder(path_order, recorded) == SelectSeq(path_order, LAMBDA i : i \in recorded)

\* lines 285-293: the debug cache after the selection for one object
SaveDebug(debug, uuid, target_stamp_object, path_pairs) ==
    IF target_stamp_object.kind = "value"
    THEN Put(debug, uuid, [object |-> target_stamp_object.object, path_pairs |-> path_pairs])
    ELSE debug

RECURSIVE SelectLoop(_, _, _, _, _, _, _, _)
RECURSIVE SelectObject(_, _, _, _, _, _, _, _, _)
RECURSIVE SelectChosen(_, _, _, _, _, _, _, _, _, _)

\* line 283 and what follows it for one object: deviation_map.at(min_deviation_index)
\* throws when the selected index recorded nothing
SelectChosen(object_map, order, path_order, objects, time_horizon, k, debug, retained, path_pairs, min_deviation_index) ==
    IF min_deviation_index \notin RecordedPaths(path_pairs)
    THEN [kind |-> "out_of_range", debug |-> debug, retained |-> retained]
    ELSE SelectLoop(object_map, order, path_order, objects, time_horizon, k + 1,
             SaveDebug(debug, objects.objects[k].object_id,
                       getObjectByStamp(object_map, order, objects.objects[k].object_id,
                                        objects.stamp),
                       path_pairs[min_deviation_index + 1]),
             Append(retained, Distances(path_pairs[min_deviation_index + 1])))

\* one object of the selection loop, given what its paths recorded: an object
\* none of whose paths recorded a distance has no entry to visit
SelectObject(object_map, order, path_order, objects, time_horizon, k, debug, retained, path_pairs) ==
    IF RecordedPaths(path_pairs) = {}
    THEN SelectLoop(object_map, order, path_order, objects, time_horizon, k + 1,
                    debug, retained)
    ELSE SelectChosen(object_map, order, path_order, objects, time_horizon, k, debug,
             retained, path_pairs,
             SelectPath(path_pairs, RecordedOrder(path_order, RecordedPaths(path_pairs)),
                        <<0, DoubleMax>>))

\* the selection loop over the objects from index k on, visited in the order of
\* the batch: the retained distances and the debug cache afterwards
SelectLoop(object_map, order, path_order, objects, time_horizon, k, debug, retained) ==
    IF k > Len(objects.objects)
    THEN [kind |-> "value", debug |-> debug, retained |-> retained]
    ELSE SelectObject(object_map, order, path_order, objects, time_horizon, k, debug,
             retained,
             PathPairs(object_map, order, objects.objects[k], objects.stamp,
                       time_horizon, 0))

\* the last loop: every retained distance is added to the statistic
RECURSIVE AddRetained(_, _)
AddRetained(stat, retained) ==
    IF retained = <<>> THEN stat
    ELSE AddRetained(StatAddAll(stat, Head(retained)), Tail(retained))

\* lines 296-306 after the selection loop r
StatOf(r) ==
    IF r.kind # "value" THEN [kind |-> r.kind, debug |-> r.debug]
    ELSE [kind |-> "value", debug |-> r.debug, stat |-> AddRetained(EmptyStat, r.retained)]

\* calcPredictedPathDeviationMetrics(objects, time_horizon)
calcPredictedPathDeviationStat(object_map, order, path_order, objects, time_horizon, debug) ==
    StatOf(SelectLoop(object_map, order, path_order, objects, time_horizon, 1, debug, <<>>))

\* std::fixed << std::setprecision(2) of a horizon of whole seconds
Digits == <<"0", "1", "2", "3", "4", "5", "6", "7", "8", "9">>

RECURSIVE DecimalString(_)
DecimalString(n) ==
    IF n < 10 THEN Digits[n + 1] ELSE DecimalString(n \div 10) \o Digits[(n % 10) + 1]

\* a rendering with three decimal places
FormatFixed3(thousandths) ==
    DecimalString(thousandths \div 1000) \o "."
        \o Digits[((thousandths \div 100) % 10) + 1]
        \o Digits[((thousandths \div 10) % 10) + 1]
        \o Digits[(thousandths % 10) + 1]

\* std::fixed << std::setprecision(2) of a double given in thousandths: the
\* decimal digits of the nearest hundredth (a value half way between two
\* hundredths is rounded by its binary expansion and is not among the inputs)
FormatFixed2(thousandths) ==
    DecimalString(((thousandths + 5) \div 10) \div 100) \o "."
        \o Digits[((((thousandths + 5) \div 10) \div 10) % 10) + 1]
        \o Digits[(((thousandths + 5) \div 10) % 10) + 1]

\* the name part of a horizon of whole seconds
FormatHorizon(time_horizon) == FormatFixed2(time_horizon * 1000)

\* the loop of lines 209-215 over horizons given in thousandths of a second, the
\* statistic of each horizon standing for itself: metric_stat_map afterwards
RECURSIVE NameLoop(_, _)
NameLoop(time_horizons, metric_stat_map) ==
    IF time_horizons = <<>> THEN metric_stat_map
    ELSE NameLoop(Tail(time_horizons),
                  Put(metric_stat_map,
                      "predicted_path_deviation_" \o FormatFixed2(Head(time_horizons)),
                      [stat_of |-> Head(time_horizons)]))

RECURSIVE HorizonLoop(_, _, _, _, _, _, _)
RECURSIVE HorizonStep(_, _, _, _, _, _, _)

\* lines 211-214 for one horizon, given its statistic r
HorizonStep(object_map, order, path_order, objects, time_horizons, metric_stat_map, r) ==
    IF r.kind # "value" THEN [kind |-> r.kind, debug |-> r.debug]
    ELSE HorizonLoop(object_map, order, path_order, objects, Tail(time_horizons), r.debug,
             Put(metric_stat_map,
                 "predicted_path_deviation_" \o FormatHorizon(Head(time_horizons)),
                 r.stat))

\* calcPredictedPathDeviationMetrics(objects): one entry per horizon, in list order
HorizonLoop(object_map, order, path_order, objects, time_horizons, debug, metric_stat_map) ==
    IF time_horizons = <<>>
    THEN [kind |-> "value", debug |-> debug, map |-> metric_stat_map]
    ELSE HorizonStep(object_map, order, path_order, objects, time_horizons, metric_stat_map,
             calcPredictedPathDeviationStat(object_map, order, path_order, objects,
                                            Head(time_horizons), debug))

calcPredictedPathDeviationMetrics(object_map, order, path_order, objects, time_horizons, debug) ==
    HorizonLoop(object_map, order, path_order, objects, time_horizons, debug, EmptyMap)

----------------------------------------------------------------------------
(* calculate *)

\* the switch of calculate on the metric, given the target objects
calcMetric(object_map, history_path_map, debug, horizons, metric, order, path_order, target_objects) ==
    CASE metric = "lateral_deviation" ->
           calcLateralDeviationMetrics(object_map, history_path_map, target_objects)
               @@ [debug |-> debug]
      [] metric = "yaw_deviation" ->
           calcYawDeviationMetrics(object_map, history_path_map, target_objects)
               @@ [debug |-> debug]
      [] metric = "predicted_path_deviation" ->
           calcPredictedPathDeviationMetrics(object_map, order, path_order,
               target_objects, horizons, debug)
      [] OTHER -> [kind |-> "nullopt", debug |-> debug]

\* calculate(metric): the outcome and the debug cache afterwards
calculate(object_map, history_path_map, debug, stamp, horizons, metric, order, path_order) ==
    IF DOMAIN object_map = {} THEN [kind |-> "nullopt", debug |-> debug]
    ELSE IF getTimeDelayThrows(horizons) THEN [kind |-> "runtime_error", debug |-> debug]
    ELSE IF ~hasPassedTime(object_map, stamp - getTimeDelay(horizons))
    THEN [kind |-> "nullopt", debug |-> debug]
    ELSE calcMetric(object_map, history_path_map, debug, horizons, metric, order, path_order,
             getObjectsByStamp(object_map, order, stamp - getTimeDelay(horizons)))

----------------------------------------------------------------------------
(* The state machine *)

Init ==
    /\ object_map_ = EmptyMap
    /\ history_path_map_ = EmptyMap
    /\ debug_target_object_ = EmptyMap
    /\ current_stamp_ = DefaultStamp
    /\ prediction_time_horizons \in HorizonConfigs
    /\ ret = [op |-> "init"]

\* setPredictedObjects(objects) with objects.header.stamp = stamp; when
\* getTimeDelay throws inside deleteOldObjects the batch is already stored.
\* ret.before is the store as deleteOldObjects finds it.
SetPredictedObjects(objects, stamp) ==
    LET ingested == IngestAll(object_map_, filterDeviationCheckObjects(objects), stamp)
    IN  /\ current_stamp_' = stamp
        /\ UNCHANGED prediction_time_horizons
        /\ IF getTimeDelayThrows(prediction_time_horizons)
           THEN /\ object_map_' = ingested
                /\ UNCHANGED <<history_path_map_, debug_target_object_>>
                /\ ret' = [op |-> "setPredictedObjects", kind |-> "runtime_error",
                           before |-> ingested]
           ELSE LET d == deleteOldObjects(ingested, history_path_map_, debug_target_object_,
                                          stamp, getTimeDelay(prediction_time_horizons))
                IN  /\ object_map_' = d.object_map
                    /\ history_path_map_' =
                           updateHistoryPath(d.object_map, d.history_path_map,
                                             smoothing_window_size)
                    /\ debug_target_object_' = d.debug_target_object
                    /\ ret' = [op |-> "setPredictedObjects", kind |-> "void",
                               before |-> ingested]

\* a calculate that moves current_stamp_ back to the stamp it evaluates
CalculateMovingStamp(metric, order, path_order) ==
    LET r == calculate(object_map_, history_path_map_, debug_target_object_, current_stamp_,
                       prediction_time_horizons, metric, order, path_order)
    IN  /\ debug_target_object_' = r.debug
        /\ ret' = [op |-> "calculate", metric |-> metric, kind |-> r.kind,
                   map |-> IF r.kind = "value" THEN r.map ELSE EmptyMap]
        /\ current_stamp_' = IF r.kind = "value"
                             THEN current_stamp_ - getTimeDelay(prediction_time_horizons)
                             ELSE current_stamp_
        /\ UNCHANGED <<object_map_, history_path_map_, prediction_time_horizons>>

\* calculate(metric); order and path_order are the iteration orders of the
\* unordered maps keyed by uuid and by path index
Calculate(metric, order, path_order) ==
    LET r == calculate(object_map_, history_path_map_, debug_target_object_, current_stamp_,
                       prediction_time_horizons, metric, order, path_order)
    IN  /\ debug_target_object_' = r.debug
        /\ ret' = [op |-> "calculate", metric |-> metric, kind |-> r.kind,
                   map |-> IF r.kind = "value" THEN r.map ELSE EmptyMap]
        /\ UNCHANGED <<object_map_, history_path_map_, current_stamp_,
                       prediction_time_horizons>>

\* the stream of batches: header stamps do not decrease
Next ==
    \/ \E objects \in Batches, stamp \in {t \in Times : t >= current_stamp_} :
           SetPredictedObjects(objects, stamp)
    \/ \E metric \in Metrics, order \in Orders(DOMAIN object_map_), path_order \in PathOrders :
           Calculate(metric, order, path_order)

Spec == Init /\ [][Next]_vars

----------------------------------------------------------------------------
(* The lookups of the store, applied to the stores the calculator can hold *)

\* the car of ObjectA one unit further along its path
ObjectA1 ==
    PredictedObject("a", "CAR", MkPose(Point(1, 0), Heading(1, 0)),
        << PredictedPath(1, << MkPose(Point(1, 0), Heading(1, 0)),
                               MkPose(Point(2, 0), Heading(1, 0)) >>) >>)

\* the objects stored under a uuid
ObjectsOf(uuid) ==
    {o \in Objects \cup {ObjectA1} : o.object_id = uuid /\ o.label \in DeviationCheckLabels}

\* the tracks of a uuid: at least one entry
Tracks(uuid) ==
    UNION {[S -> ObjectsOf(uuid)] : S \in (SUBSET Times) \ {{}}}

\* every content of object_map_ over Times: a track for each uuid of U
RECURSIVE StoresOver(_)
StoresOver(U) ==
    IF U = {} THEN {EmptyMap}
    ELSE LET u == CHOOSE u \in U : TRUE
         IN  {Put(f, u, t) : f \in StoresOver(U \ {u}), t \in Tracks(u)}

Stores == UNION {StoresOver(U) : U \in SUBSET Uuids}

\* the stamps of all entries of a store
AllStamps(object_map) == UNION {DOMAIN object_map[uuid] : uuid \in DOMAIN object_map}

\* the horizon lists under which no entry of Times is evicted
KeepingConfigs ==
    {h \in HorizonConfigs : h # <<>> /\ 2 * getTimeDelay(h) >= MaxTime}

\* the stamps looked up: Times and one tick on either side
QueryStamps == (0 - 1)..(MaxTime + 1)

\* a store as left by a stream of batches ending at its newest stamp
InitLookup ==
    /\ object_map_ \in Stores
    /\ history_path_map_ = updateHistoryPath(object_map_, EmptyMap, smoothing_window_size)
    /\ debug_target_object_ = EmptyMap
    /\ current_stamp_ = IF AllStamps(object_map_) = {} THEN DefaultStamp
                        ELSE Max(AllStamps(object_map_))
    /\ prediction_time_horizons \in KeepingConfigs
    /\ ret = [op |-> "init"]

GetClosestStamp(order, stamp) ==
    /\ ret.op = "init"
    /\ ret' = [op |-> "getClosestStamp", stamp |-> stamp,
               value |-> getClosestStamp(object_map_, order, stamp)]
    /\ UNCHANGED <<object_map_, history_path_map_, debug_target_object_, current_stamp_,
                   prediction_time_horizons>>

GetObjectByStamp(order, uuid, stamp) ==
    /\ ret.op = "init"
    /\ ret' = [op |-> "getObjectByStamp", uuid |-> uuid, stamp |-> stamp,
               closest |-> getClosestStamp(object_map_, order, stamp),
               result |-> getObjectByStamp(object_map_, order, uuid, stamp)]
    /\ UNCHANGED <<object_map_, history_path_map_, debug_target_object_, current_stamp_,
                   prediction_time_horizons>>

GetObjectsByStamp(order, stamp) ==
    /\ ret.op = "init"
    /\ ret' = [op |-> "getObjectsByStamp", stamp |-> stamp,
               closest |-> getClosestStamp(object_map_, order, stamp),
               result |-> getObjectsByStamp(object_map_, order, stamp)]
    /\ UNCHANGED <<object_map_, history_path_map_, debug_target_object_, current_stamp_,
                   prediction_time_horizons>>

HasPassedTimeOf(uuid, stamp) ==
    /\ ret.op = "init"
    /\ ret' = [op |-> "hasPassedTime", uuid |-> uuid, stamp |-> stamp,
               value |-> hasPassedTimeOf(object_map_, uuid, stamp)]
    /\ UNCHANGED <<object_map_, history_path_map_, debug_target_object_, current_stamp_,
                   prediction_time_horizons>>

NextLookup ==
    \/ \E order \in Orders(DOMAIN object_map_), stamp \in QueryStamps :
           GetClosestStamp(order, stamp)
    \/ \E order \in Orders(DOMAIN object_map_), uuid \in Uuids, stamp \in QueryStamps :
           GetObjectByStamp(order, uuid, stamp)
    \/ \E order \in Orders(DOMAIN object_map_), stamp \in QueryStamps :
           GetObjectsByStamp(order, stamp)
    \/ \E uuid \in Uuids, stamp \in QueryStamps : HasPassedTimeOf(uuid, stamp)

SpecLookup == InitLookup /\ [][NextLookup]_vars

----------------------------------------------------------------------------
(* A car followed along a road, its batches arriving in any order of stamps *)

\* the lateral offsets of the car, in distance units
Lanes == {0, 1}

\* the car at stamp: it drives along x at one distance unit per tick with the
\* lateral offset lane, heading along x, and predicts that it keeps doing so
Car(stamp, lane) ==
    PredictedObject("a", "CAR", MkPose(Point(stamp, lane), Heading(1, 0)),
        << PredictedPath(1, [j \in 1..3 |-> MkPose(Point(stamp + j - 1, lane),
                                                    Heading(1, 0))]) >>)

\* the car parked at the origin, heading along y
Parked ==
    PredictedObject("a", "CAR", MkPose(Point(0, 0), Heading(0, 1)),
        << PredictedPath(1, [j \in 1..3 |-> MkPose(Point(0, 0), Heading(0, 1))]) >>)

\* objects.objects of the batches with header stamp
CarBatches(stamp) == {<<>>, <<Parked>>} \cup {<<Car(stamp, lane)>> : lane \in Lanes}

InitIngest ==
    /\ object_map_ = EmptyMap
    /\ history_path_map_ = EmptyMap
    /\ debug_target_object_ = EmptyMap
    /\ current_stamp_ = DefaultStamp
    /\ prediction_time_horizons \in DelayConfigs
    /\ ret = [op |-> "init"]

\* setPredictedObjects(objects) with objects.header.stamp = stamp; ret.found
\* is the store the call found, ret.before the store after its ingestion loop
Publish(objects, stamp) ==
    LET ingested == IngestAll(object_map_, filterDeviationCheckObjects(objects), stamp)
    IN  /\ current_stamp_' = stamp
        /\ UNCHANGED prediction_time_horizons
        /\ IF getTimeDelayThrows(prediction_time_horizons)
           THEN /\ object_map_' = ingested
                /\ UNCHANGED <<history_path_map_, debug_target_object_>>
                /\ ret' = [op |-> "setPredictedObjects", kind |-> "runtime_error",
                           objects |-> objects, found |-> object_map_,
                           before |-> ingested]
           ELSE LET d == deleteOldObjects(ingested, history_path_map_, debug_target_object_,
                                          stamp, getTimeDelay(prediction_time_horizons))
                IN  /\ object_map_' = d.object_map
                    /\ history_path_map_' =
                           updateHistoryPath(d.object_map, d.history_path_map,
                                             smoothing_window_size)
                    /\ debug_target_object_' = d.debug_target_object
                    /\ ret' = [op |-> "setPredictedObjects", kind |-> "void",
                               objects |-> objects, found |-> object_map_,
                               before |-> ingested]

\* the stream of batches: header stamps in any order
NextIngest == \E stamp \in Times : \E objects \in CarBatches(stamp) : Publish(objects, stamp)

SpecIngest == InitIngest /\ [][NextIngest]_vars

----------------------------------------------------------------------------
(* The car followed along the road and evaluated *)

\* the iteration orders of the per-object map keyed by path index, for the car
CarPathOrders == Orders(0..(Len(Parked.predicted_paths) - 1))

\* the stream of batches of the car, each header stamp later than the one
\* before (the first batch may carry the stamp 0), and the calls of calculate
\* between them
NextTrack ==
    \/ \E stamp \in {t \in Times : t > current_stamp_ \/ ret.op = "init"} :
           \E objects \in CarBatches(stamp) : SetPredictedObjects(objects, stamp)
    \/ \E metric \in Metrics, order \in Orders(DOMAIN object_map_), path_order \in CarPathOrders :
           Calculate(metric, order, path_order)

SpecTrack == InitIngest /\ [][NextTrack]_vars

----------------------------------------------------------------------------
(* averageFilterPath on its own, applied to straight paths *)

MaxPoses == 6

\* the displacements from one pose of a path to the next, in distance units
Steps == {<<0, 0>>, <<1, 0>>, <<0, 1>>, <<1, 1>>, <<2, 1>>, <<0 - 1, 0>>}

\* size poses from the origin on, each one step after the one before, heading
\* along the step
StraightPath(size, step) ==
    [k \in 1..size |->
        MkPose(Point((k - 1) * step[1], (k - 1) * step[2]),
               IF step = <<0, 0>> THEN Heading(1, 0) ELSE Heading(step[1], step[2]))]

InitSmooth ==
    /\ object_map_ = EmptyMap
    /\ history_path_map_ = EmptyMap
    /\ debug_target_object_ = EmptyMap
    /\ current_stamp_ = DefaultStamp
    /\ prediction_time_horizons \in DelayConfigs
    /\ \E size \in 0..MaxPoses, step \in Steps, window_size \in WindowSizes :
           ret = [op |-> "init", path |-> StraightPath(size, step),
                  window_size |-> window_size]

\* filtered_path = averageFilterPath(path, window_size)
AverageFilterPath ==
    /\ ret.op = "init"
    /\ ret' = [op |-> "averageFilterPath", path |-> ret.path,
               window_size |-> ret.window_size,
               filtered_path |-> averageFilterPath(ret.path, ret.window_size)]
    /\ UNCHANGED <<object_map_, history_path_map_, debug_target_object_, current_stamp_,
                   prediction_time_horizons>>

NextSmooth == AverageFilterPath

SpecSmooth == InitSmooth /\ [][NextSmooth]_vars

----------------------------------------------------------------------------
(* calculate applied to the stores of a car with two predicted paths *)

\* the car at stamp with two hypotheses: it drifts two distance units to the
\* side and stays there (three poses), or it jumps three to the side (two poses)
Fork(stamp, lane) ==
    PredictedObject("a", "CAR", MkPose(Point(stamp, lane), Heading(1, 0)),
        << PredictedPath(1, << MkPose(Point(stamp, lane), Heading(1, 0)),
                               MkPose(Point(stamp + 1, lane + 2), Heading(1, 0)),
                               MkPose(Point(stamp + 2, lane + 2), Heading(1, 0)) >>),
           PredictedPath(1, << MkPose(Point(stamp, lane), Heading(1, 0)),
                               MkPose(Point(stamp + 1, lane + 3), Heading(1, 0)) >>) >>)

\* the stores of the car: a snapshot at each stamp of a non-empty set of stamps
ForkStores ==
    UNION {{[uuid \in {"a"} |-> [t \in S |-> Fork(t, lanes[t])]] : lanes \in [S -> Lanes]} :
              S \in (SUBSET Times) \ {{}}}

\* a store as left by a stream of batches ending at its newest stamp
InitSelect ==
    /\ object_map_ \in ForkStores
    /\ history_path_map_ = updateHistoryPath(object_map_, EmptyMap, smoothing_window_size)
    /\ debug_target_object_ = EmptyMap
    /\ current_stamp_ = Max(AllStamps(object_map_))
    /\ prediction_time_horizons \in KeepingConfigs
    /\ ret = [op |-> "init"]

\* calculate(predicted_path_deviation), once
NextSelect ==
    /\ ret.op = "init"
    /\ \E order \in Orders(DOMAIN object_map_), path_order \in PathOrders :
           Calculate("predicted_path_deviation", order, path_order)

SpecSelect == InitSelect /\ [][NextSelect]_vars

----------------------------------------------------------------------------
(* The names of the predicted path deviation, for horizons of any value *)

\* horizons in thousandths of a second
HorizonValues == {1000, 1001, 1004, 1006, 2000, 5000}

\* the lists of up to three different horizons
HorizonLists ==
    {<<h>> : h \in HorizonValues}
    \cup {<<h, g>> : <<h, g>> \in {p \in HorizonValues \X HorizonValues : p[1] # p[2]}}
    \cup {<<h, g, f>> : <<h, g, f>> \in
              {p \in HorizonValues \X HorizonValues \X HorizonValues :
                  p[1] # p[2] /\ p[1] # p[3] /\ p[2] # p[3]}}

InitNames ==
    /\ object_map_ = EmptyMap
    /\ history_path_map_ = EmptyMap
    /\ debug_target_object_ = EmptyMap
    /\ current_stamp_ = DefaultStamp
    /\ prediction_time_horizons = <<1>>
    /\ \E time_horizons \in HorizonLists : ret = [op |-> "init", time_horizons |-> time_horizons]

\* the loop of calcPredictedPathDeviationMetrics(objects) over ret.time_horizons
NameHorizons ==
    /\ ret.op = "init"
    /\ ret' = [op |-> "calcPredictedPathDeviationMetrics",
               time_horizons |-> ret.time_horizons,
               metric_stat_map |-> NameLoop(ret.time_horizons, EmptyMap)]
    /\ UNCHANGED <<object_map_, history_path_map_, debug_target_object_, current_stamp_,
                   prediction_time_horizons>>

NextNames == NameHorizons

SpecNames == InitNames /\ [][NextNames]_vars

----------------------------------------------------------------------------
(* deleteOldObjects on its own, applied to the stores an ingestion can leave *)

\* a debug cache with an entry for each key of U
DebugOf(object_map, U) ==
    [uuid \in U |-> [object     |-> object_map[uuid][Min(DOMAIN object_map[uuid])],
                     path_pairs |-> <<>>]]

\* the three maps as a record
Maps == [object_map          |-> object_map_,
         history_path_map    |-> history_path_map_,
         debug_target_object |-> debug_target_object_]

\* the store after the loop of setPredictedObjects at stamp current_stamp_,
\* with the history paths of the batch before and a debug cache
InitEvict ==
    /\ object_map_ \in Stores
    /\ history_path_map_ = updateHistoryPath(object_map_, EmptyMap, smoothing_window_size)
    /\ debug_target_object_ \in {DebugOf(object_map_, {}),
                                 DebugOf(object_map_, DOMAIN object_map_)}
    /\ current_stamp_ \in Times
    /\ prediction_time_horizons \in DelayConfigs
    /\ ret = [op |-> "init", found |-> <<>>]

\* deleteOldObjects(current_stamp_), at most twice; ret.found lists the maps
\* each run started from
DeleteOldObjects ==
    /\ Len(ret.found) < 2
    /\ LET d == deleteOldObjects(object_map_, history_path_map_, debug_target_object_,
                                 current_stamp_, getTimeDelay(prediction_time_horizons))
       IN  /\ object_map_' = d.object_map
           /\ history_path_map_' = d.history_path_map
           /\ debug_target_object_' = d.debug_target_object
    /\ ret' = [op |-> "deleteOldObjects", found |-> Append(ret.found, Maps)]
    /\ UNCHANGED <<current_stamp_, prediction_time_horizons>>

NextEvict == DeleteOldObjects

SpecEvict == InitEvict /\ [][NextEvict]_vars

----------------------------------------------------------------------------
(* Properties of calculate and of the eviction, under Spec *)

\* the last call was calculate
Calculated == ret.op = "calculate"

\* the last call was a setPredictedObjects that ran to its end
Ingested == ret.op = "setPredictedObjects" /\ ret.kind = "void"

\* the oldest stamp of each track
OldestStamps == {Min(DOMAIN object_map_[uuid]) : uuid \in DOMAIN object_map_}

\* the store is empty, or no track reaches back to T - delay
NotReady ==
    \/ DOMAIN object_map_ = {}
    \/ Min(OldestStamps) > current_stamp_ - getTimeDelay(prediction_time_horizons)

\* C1: with a horizon list that has a maximum, calculate returns no result when
\* the store is empty or the minimum of the oldest stamps of the tracks is
\* greater than T - delay, and returns a result in every other case.
C1_ResultIffReady ==
    (Calculated /\ prediction_time_horizons # <<>>) =>
        IF NotReady THEN ret.kind = "nullopt" ELSE ret.kind = "value"

\* T - 2 * delay of the last batch
Cutoff == current_stamp_ - 2 * getTimeDelay(prediction_time_horizons)

\* the newest stamp of a track as deleteOldObjects found it
NewestBefore(uuid) == Max(DOMAIN ret.before[uuid])

\* the entry (uuid, stamp) is in the store
Held(uuid, stamp) == uuid \in DOMAIN object_map_ /\ stamp \in DOMAIN object_map_[uuid]

\* C2 as claimed: after deleteOldObjects(T) the newest entry of every track that
\* was not empty before is still in the store, whatever T and the delay are.
C2_NewestAlwaysKept ==
    Ingested => \A uuid \in DOMAIN ret.before : Held(uuid, NewestBefore(uuid))

\* C2 as amended: the newest entry of a track is still in the store after
\* deleteOldObjects(T) exactly when its stamp is not less than T - 2 * delay; a
\* track whose newest entry is older loses every entry and its uuid is erased.
C2_NewestKeptIffInWindow ==
    Ingested =>
        \A uuid \in DOMAIN ret.before :
            /\ Held(uuid, NewestBefore(uuid)) <=> NewestBefore(uuid) >= Cutoff
            /\ NewestBefore(uuid) < Cutoff => uuid \notin DOMAIN object_map_

\* a batch without uuid "a" arrived after the whole track of "a" had left the window
C2_Witness ==
    /\ Ingested
    /\ \E uuid \in DOMAIN ret.before :
           NewestBefore(uuid) < Cutoff /\ uuid \notin DOMAIN object_map_

\* C3: after a completed setPredictedObjects no track holds an entry older than
\* T - 2 * delay, and every entry that was stored or ingested and is not older
\* than T - 2 * delay (one exactly at the cutoff included) is held unchanged.
C3_EvictsExactlyTheOld ==
    Ingested =>
        /\ \A uuid \in DOMAIN object_map_ :
               \A stamp \in DOMAIN object_map_[uuid] : stamp >= Cutoff
        /\ \A uuid \in DOMAIN ret.before :
               \A stamp \in DOMAIN ret.before[uuid] :
                   stamp >= Cutoff =>
                       /\ Held(uuid, stamp)
                       /\ object_map_[uuid][stamp] = ret.before[uuid][stamp]

\* one track lost an entry older than the cutoff and kept one exactly at the cutoff
C3_Witness ==
    /\ Ingested
    /\ \E uuid \in DOMAIN ret.before :
           /\ \E stamp \in DOMAIN ret.before[uuid] : stamp < Cutoff
           /\ Held(uuid, Cutoff)

\* C7 as claimed: with an empty horizon list calculate raises the configuration
\* error in every store state, the empty store included.
C7_EmptyHorizonsRaise ==
    (Calculated /\ prediction_time_horizons = <<>>) => ret.kind = "runtime_error"

\* C9 as claimed: with a non-empty horizon list calculate never raises.
C9_NeverRaises ==
    (Calculated /\ prediction_time_horizons # <<>>) => ret.kind \in {"nullopt", "value"}

\* the names calculate assigns for a metric
MetricNames(metric) ==
    IF metric = "predicted_path_deviation"
    THEN {"predicted_path_deviation_" \o FormatHorizon(h) :
             h \in Range(prediction_time_horizons)}
    ELSE {metric}

\* C10 as claimed: a metric that received no contributing data is absent from
\* the mapping calculate returns.
C10_EmptyStatOmitted ==
    (Calculated /\ ret.kind = "value") =>
        \A name \in DOMAIN ret.map : ret.map[name].count > 0

\* C10 as amended: the mapping calculate returns holds the entry of the metric
\* (one entry per horizon for the predicted path deviation) whether or not any
\* value was added to its statistic; a statistic without data is returned with
\* count 0.
C10_EntryAlwaysPresent ==
    (Calculated /\ ret.kind = "value") => DOMAIN ret.map = MetricNames(ret.metric)

\* calculate returned a mapping with a statistic that holds no value
C10_Witness ==
    /\ Calculated
    /\ ret.kind = "value"
    /\ \E name \in DOMAIN ret.map : ret.map[name].count = 0

\* C11: once setPredictedObjects can run to its end (the horizon list is not
\* empty), in every state, whatever calls of calculate are interleaved: no
\* track of the store is empty, the history path map has exactly the keys of
\* the store, and every key of the debug cache is a key of the store.
C11_PurgedEntirely ==
    prediction_time_horizons # <<>> =>
        /\ \A uuid \in DOMAIN object_map_ : DOMAIN object_map_[uuid] # {}
        /\ DOMAIN history_path_map_ = DOMAIN object_map_
        /\ DOMAIN debug_target_object_ \subseteq DOMAIN object_map_

\* a setPredictedObjects purged a key while the debug cache held an entry
C11_Witness ==
    /\ Ingested
    /\ DOMAIN ret.before \ DOMAIN object_map_ # {}
    /\ object_map_ # EmptyMap
    /\ debug_target_object_ # EmptyMap

\* C22: every step in which calculate has run, for every metric and every
\* store, leaves every track of object_map_, every raw and smoothed history
\* path of history_path_map_ and current_stamp_ as they were; it may change
\* the debug cache only.
C22_CalculateOnlyReads ==
    [][ret'.op = "calculate" =>
           /\ object_map_' = object_map_
           /\ history_path_map_' = history_path_map_
           /\ current_stamp_' = current_stamp_]_vars

\* calculate returned a result over a store of two tracks and filled the
\* debug cache
C22_Witness ==
    /\ Calculated
    /\ ret.kind = "value"
    /\ Cardinality(DOMAIN object_map_) = 2
    /\ debug_target_object_ # EmptyMap

\* the stamps getClosestStamp(q) can resolve to
ResolvedStamps(q) ==
    {getClosestStamp(object_map_, order, q) : order \in Orders(DOMAIN object_map_)}

\* the keys with an entry at exactly c
KeysAt(c) == {uuid \in DOMAIN object_map_ : c \in DOMAIN object_map_[uuid]}

\* the keys with an entry at exactly c whose oldest stamp is not later than q
Contributing(c, q) == {uuid \in KeysAt(c) : Min(DOMAIN object_map_[uuid]) <= q}

\* calculate returned the lateral or the yaw deviation
DeviationDone ==
    /\ Calculated
    /\ ret.kind = "value"
    /\ ret.metric \in {"lateral_deviation", "yaw_deviation"}

\* C27: for q = T - delay and the closest stamp c that q resolves to, the
\* number of samples of the lateral deviation statistic, and of the yaw
\* deviation statistic, is the number of keys that have an entry at exactly c
\* and whose oldest stamp is <= q; a key that fails either condition adds no
\* sample and the other keys still add theirs.
C27_OneSamplePerContributingKey ==
    DeviationDone =>
        \E c \in ResolvedStamps(current_stamp_ - getTimeDelay(prediction_time_horizons)) :
            ret.map[ret.metric].count
                = Cardinality(Contributing(c, current_stamp_
                                              - getTimeDelay(prediction_time_horizons)))

\* a statistic of one sample was returned over a store of two keys with an
\* entry at the closest stamp, one of which has no stamp as old as q
C27_Witness ==
    /\ DeviationDone
    /\ ret.map[ret.metric].count = 1
    /\ \E c \in ResolvedStamps(current_stamp_ - getTimeDelay(prediction_time_horizons)) :
           /\ Cardinality(KeysAt(c)) = 2
           /\ Cardinality(Contributing(c, current_stamp_
                                          - getTimeDelay(prediction_time_horizons))) = 1

----------------------------------------------------------------------------
(* Properties of the ingestion, under SpecIngest *)

\* the number of entries of track with a stamp below stamp
Rank(track, stamp) == Cardinality({t \in DOMAIN track : t < stamp})

\* C12: after every completed setPredictedObjects, for every key of the store,
\* the raw and the smoothed history path have as many poses as the track has
\* entries after the eviction, and the k-th pose of the raw path is the pose
\* of the entry with the k-th smallest stamp.
C12_HistoryIsTheTrack ==
    Ingested =>
        \A uuid \in DOMAIN object_map_ :
            /\ Len(history_path_map_[uuid][1]) = Cardinality(DOMAIN object_map_[uuid])
            /\ Len(history_path_map_[uuid][2]) = Cardinality(DOMAIN object_map_[uuid])
            /\ \A stamp \in DOMAIN object_map_[uuid] :
                   history_path_map_[uuid][1][Rank(object_map_[uuid], stamp) + 1]
                       = object_map_[uuid][stamp].pose

\* a setPredictedObjects evicted an entry and left a track of three entries
\* or more with different poses
C12_Witness ==
    /\ Ingested
    /\ \E uuid \in DOMAIN object_map_ :
           /\ Cardinality(DOMAIN object_map_[uuid]) >= 3
           /\ DOMAIN ret.before[uuid] # DOMAIN object_map_[uuid]
           /\ \E s, t \in DOMAIN object_map_[uuid] :
                  object_map_[uuid][s].pose # object_map_[uuid][t].pose

\* the cutoff of the last setPredictedObjects
CutoffNow == current_stamp_ - 2 * getTimeDelay(prediction_time_horizons)

\* C13: whatever the order of the header stamps, a track holds one entry per
\* stamp and is read in increasing stamp order: an object ingested at a stamp
\* its track already holds replaces the snapshot of that stamp and leaves the
\* other entries and the length of the track as they were, an object ingested
\* at a new stamp adds one entry; the eviction that follows removes exactly
\* the stamps below the cutoff, and the raw history path lists each remaining
\* stamp once, in increasing order.
C13_OneEntryPerStamp ==
    Ingested =>
        \A k \in 1..Len(ret.objects) :
            LET uuid  == ret.objects[k].object_id
                found == IF uuid \in DOMAIN ret.found THEN ret.found[uuid] ELSE EmptyMap
            IN  /\ DOMAIN ret.before[uuid] = DOMAIN found \cup {current_stamp_}
                /\ ret.before[uuid][current_stamp_] = ret.objects[k]
                /\ \A t \in DOMAIN found \ {current_stamp_} : ret.before[uuid][t] = found[t]
                /\ DOMAIN object_map_[uuid] = {t \in DOMAIN ret.before[uuid] : t >= CutoffNow}
                /\ \A i, j \in 1..Len(history_path_map_[uuid][1]) :
                       i < j =>
                           \E s, t \in DOMAIN object_map_[uuid] :
                               /\ s < t
                               /\ history_path_map_[uuid][1][i] = object_map_[uuid][s].pose
                               /\ history_path_map_[uuid][1][j] = object_map_[uuid][t].pose

\* a batch stamped before the newest entry of the track replaced the snapshot
\* stored at its stamp by a different one
C13_Witness ==
    /\ Ingested
    /\ \E k \in 1..Len(ret.objects) :
           LET uuid == ret.objects[k].object_id
           IN  /\ uuid \in DOMAIN ret.found
               /\ current_stamp_ \in DOMAIN ret.found[uuid]
               /\ ret.found[uuid][current_stamp_] # ret.objects[k]
               /\ \E t \in DOMAIN object_map_[uuid] : t > current_stamp_
               /\ \E t \in DOMAIN object_map_[uuid] : t < current_stamp_

----------------------------------------------------------------------------
(* Properties of the deviations of the car, under SpecTrack *)

\* the stamp calculate evaluates
TargetStamp == current_stamp_ - getTimeDelay(prediction_time_horizons)

\* every pose of the track has the heading u and lies on one line along u
OnOneLine(track) ==
    \A s, t \in DOMAIN track :
        /\ track[s].pose.orientation = track[t].pose.orientation
        /\ track[s].pose.orientation[1]
               * (track[t].pose.position.y - track[s].pose.position.y)
           = track[s].pose.orientation[2]
               * (track[t].pose.position.x - track[s].pose.position.x)

\* C15 as claimed: when every pose of every track lies on one straight line,
\* at any constant lateral offset, with its heading along that line, a lateral
\* or yaw deviation that calculate returns is zero.
C15_ZeroDeviationRoundTrip ==
    ( /\ Calculated
      /\ ret.kind = "value"
      /\ ret.metric \in {"lateral_deviation", "yaw_deviation"}
      /\ \A uuid \in DOMAIN object_map_ : OnOneLine(object_map_[uuid]) )
    => ret.map[ret.metric].sum = D(0)

\* the track holds three entries or more, one of them at the evaluated stamp:
\* that one has a lateral offset other than the lateral offset of all the others
SingleSpike(track) ==
    /\ Cardinality(DOMAIN track) >= 3
    /\ TargetStamp \in DOMAIN track
    /\ \E line, spike \in Lanes :
           /\ line # spike
           /\ track[TargetStamp] = Car(TargetStamp, spike)
           /\ \A t \in DOMAIN track \ {TargetStamp} : track[t] = Car(t, line)

\* the magnitude d of the spike, in position units
SpikeSize(track) ==
    Abs(track[TargetStamp].pose.position.y
        - track[CHOOSE t \in DOMAIN track : t # TargetStamp].pose.position.y)

\* calculate returned the lateral deviation of the car whose track has a spike
SpikeEvaluated ==
    /\ Calculated
    /\ ret.kind = "value"
    /\ ret.metric = "lateral_deviation"
    /\ "a" \in DOMAIN object_map_
    /\ SingleSpike(object_map_["a"])

WindowPoints == 2 * (smoothing_window_size \div 2) + 1

\* the pose of the evaluated stamp and the next one are averaged over a whole window
SpikeInWholeWindows(track) ==
    /\ Rank(track, TargetStamp) >= smoothing_window_size \div 2
    /\ Rank(track, TargetStamp) + 1 + smoothing_window_size \div 2
           <= Cardinality(DOMAIN track) - 1

DeviatedLater(track) ==
    /\ TargetStamp \in DOMAIN track
    /\ \E t \in DOMAIN track : t > TargetStamp
    /\ \E line, offset \in Lanes :
           /\ track[TargetStamp] = Car(TargetStamp, line)
           /\ \A t \in DOMAIN track : t > TargetStamp => track[t] = Car(t, offset)

\* the lateral offset d of the later poses from the predicted line, in position units
DeviationSize(track) ==
    Abs(track[Max(DOMAIN track)].pose.position.y - track[TargetStamp].pose.position.y)

\* calculate returned the predicted path deviation of the car in this case
DeviatedEvaluated ==
    /\ Calculated
    /\ ret.kind = "value"
    /\ ret.metric = "predicted_path_deviation"
    /\ "a" \in DOMAIN object_map_
    /\ DeviatedLater(object_map_["a"])

\* the statistic returned for horizon h
HorizonStat(h) == ret.map["predicted_path_deviation_" \o FormatHorizon(h)]

StoredAtEveryStep(track) ==
    \A j \in 1..getTimeDelay(prediction_time_horizons) : TargetStamp + j \in DOMAIN track

----------------------------------------------------------------------------
(* Properties of the smoother on its own, under SpecSmooth *)

Smoothed == ret.op = "averageFilterPath"

\* C17 as claimed: for a collinear, evenly spaced path and any window size the
\* position of every smoothed pose equals the position of the input pose of
\* the same index, the indices within half a window of either end included.
C17_StraightPathUnchanged ==
    Smoothed =>
        \A k \in 1..Len(ret.path) : ret.filtered_path[k].position = ret.path[k].position

\* C17 as amended: the output has the length of the input; the position
\* equals the input position at every index with fewer than half a window of
\* poses before it (the raw position is kept there) and at every index whose
\* whole window lies inside the path; at the indices closer than half a window
\* to the end, and not to the start, it is the mean of the poses from half a
\* window before the index to the last pose, which on an evenly spaced straight
\* path is the midpoint of those two poses and lies behind the input pose.
C17_StraightPathShortenedAtEnd ==
    Smoothed =>
        /\ Len(ret.filtered_path) = Len(ret.path)
        /\ \A k \in 1..Len(ret.path) :
               IF k - 1 < ret.window_size \div 2 \/ k + ret.window_size \div 2 <= Len(ret.path)
               THEN ret.filtered_path[k].position = ret.path[k].position
               ELSE /\ 2 * ret.filtered_path[k].position.x
                         = ret.path[k - ret.window_size \div 2].position.x
                           + ret.path[Len(ret.path)].position.x
                    /\ 2 * ret.filtered_path[k].position.y
                         = ret.path[k - ret.window_size \div 2].position.y
                           + ret.path[Len(ret.path)].position.y
                    /\ ret.filtered_path[k].position.finite

\* a path of moving poses that has indices of each kind was smoothed with a
\* window of two poses to either side
C17_Witness ==
    /\ Smoothed
    /\ ret.window_size \div 2 = 2
    /\ Len(ret.path) >= 5
    /\ ret.path[1].position # ret.path[2].position
    /\ ret.filtered_path[Len(ret.path)].position # ret.path[Len(ret.path)].position

\* the indices of path from half a window before index i to half a window
\* after it that lie inside the path (0-based)
ClampedWindow(path, i, window_size) ==
    {j \in 0..(Len(path) - 1) :
        /\ Max({0, i - window_size \div 2}) <= j
        /\ j <= Min({Len(path) - 1, i + window_size \div 2})}

\* C23 as claimed: the smoothed position at every index i is the average of
\* the input positions at the indices j with max(0, i - half) <= j <=
\* min(n - 1, i + half); for i < half the window starts at index 0.
C23_WindowClamped ==
    Smoothed =>
        \A k \in 1..Len(ret.path) :
            /\ ret.filtered_path[k].position.x
                   * Cardinality(ClampedWindow(ret.path, k - 1, ret.window_size))
               = SumOver(ret.path, ClampedWindow(ret.path, k - 1, ret.window_size), "x")
            /\ ret.filtered_path[k].position.y
                   * Cardinality(ClampedWindow(ret.path, k - 1, ret.window_size))
               = SumOver(ret.path, ClampedWindow(ret.path, k - 1, ret.window_size), "y")

----------------------------------------------------------------------------
(* Properties of the selection of the predicted path, under SpecSelect *)

\* the snapshot calculate evaluates
TargetObject ==
    object_map_["a"][getClosestStamp(object_map_, <<"a">>, TargetStamp)]

\* the sum of the distances recorded with pairs
SumOf(pairs) == Accumulate(Distances(pairs)).value

\* hypothesis i recorded distances, and no hypothesis that recorded any has a
\* smaller sum
IsMinimumSum(path_pairs, i) ==
    /\ path_pairs[i] # <<>>
    /\ \A m \in 1..Len(path_pairs) :
           path_pairs[m] # <<>> => SumOf(path_pairs[i]) <= SumOf(path_pairs[m])

\* stat holds exactly the distances of one hypothesis of minimum sum
RetainedFrom(path_pairs, stat) ==
    IF \A i \in 1..Len(path_pairs) : path_pairs[i] = <<>>
    THEN stat = EmptyStat
    ELSE \E i \in 1..Len(path_pairs) :
             /\ IsMinimumSum(path_pairs, i)
             /\ stat = StatAddAll(EmptyStat, Distances(path_pairs[i]))

\* calculate returned the predicted path deviation
SelectionDone ==
    Calculated /\ ret.kind = "value" /\ ret.metric = "predicted_path_deviation"

\* C14: for each horizon, the statistic of the evaluated object holds exactly
\* the distances recorded for one single hypothesis, one whose recorded
\* distances have the minimum sum over the hypotheses that recorded any (the
\* sum, not the mean), and never distances of two hypotheses.
C14_MinimumSumHypothesis ==
    SelectionDone =>
        \A h \in Range(prediction_time_horizons) :
            RetainedFrom(PathPairs(object_map_, <<"a">>, TargetObject, TargetStamp, h, 0),
                         HorizonStat(h))

\* the hypothesis with more recorded distances has the larger sum and the
\* smaller mean
SumAndMeanDisagree(path_pairs) ==
    /\ Len(path_pairs[1]) > Len(path_pairs[2])
    /\ Len(path_pairs[2]) > 0
    /\ SumOf(path_pairs[1]) > SumOf(path_pairs[2])
    /\ SumOf(path_pairs[1]) * Len(path_pairs[2]) < SumOf(path_pairs[2]) * Len(path_pairs[1])

\* the selection was made between two hypotheses that the sum and the mean
\* order differently
C14_Witness ==
    /\ SelectionDone
    /\ \E h \in Range(prediction_time_horizons) :
           SumAndMeanDisagree(PathPairs(object_map_, <<"a">>, TargetObject, TargetStamp, h, 0))

\* the lowest hypothesis (1-based) among those of minimum sum
LowestMinimumSum(path_pairs) ==
    Min({i \in 1..Len(path_pairs) : IsMinimumSum(path_pairs, i)})

\* stat holds exactly the distances of the lowest hypothesis of minimum sum
RetainedFromLowest(path_pairs, stat) ==
    IF \A i \in 1..Len(path_pairs) : path_pairs[i] = <<>>
    THEN stat = EmptyStat
    ELSE stat = StatAddAll(EmptyStat, Distances(path_pairs[LowestMinimumSum(path_pairs)]))

\* C25 as claimed: when two or more hypotheses of the object have the same
\* minimum sum of recorded distances, the distances retained are those of the
\* hypothesis with the lowest index among them, whatever the iteration order
\* of the map keyed by hypothesis index.
C25_TieGoesToLowestIndex ==
    SelectionDone =>
        \A h \in Range(prediction_time_horizons) :
            RetainedFromLowest(
                PathPairs(object_map_, <<"a">>, TargetObject, TargetStamp, h, 0),
                HorizonStat(h))

----------------------------------------------------------------------------
(* Properties of the names of the predicted path deviation, under SpecNames *)

Named == ret.op = "calcPredictedPathDeviationMetrics"

\* C20 as claimed: the mapping has exactly one entry per configured horizon
\* (the configured horizons are all different), and for the horizon list {5.0}
\* its only entry is predicted_path_deviation_5.00.
C20_OneEntryPerHorizon ==
    Named =>
        /\ Cardinality(DOMAIN ret.metric_stat_map) = Len(ret.time_horizons)
        /\ ret.time_horizons = <<5000>> =>
               DOMAIN ret.metric_stat_map = {"predicted_path_deviation_5.00"}

\* the horizon rounded to hundredths of a second
Hundredths(thousandths) == (thousandths + 5) \div 10

\* C20 as amended: the mapping has exactly one entry per different rendering
\* of the configured horizons with two decimal places, that is per different
\* value of the horizons rounded to hundredths; the entry holds the statistic
\* of the last horizon of the list with that rendering; for the horizon list
\* {5.0} its only entry is predicted_path_deviation_5.00.
C20_OneEntryPerRendering ==
    Named =>
        /\ Cardinality(DOMAIN ret.metric_stat_map)
              = Cardinality({Hundredths(h) : h \in Range(ret.time_horizons)})
        /\ \A name \in DOMAIN ret.metric_stat_map :
               \E k \in 1..Len(ret.time_horizons) :
                   /\ ret.metric_stat_map[name].stat_of = ret.time_horizons[k]
                   /\ \A m \in (k + 1)..Len(ret.time_horizons) :
                          Hundredths(ret.time_horizons[m]) # Hundredths(ret.time_horizons[k])
        /\ ret.time_horizons = <<5000>> =>
               DOMAIN ret.metric_stat_map = {"predicted_path_deviation_5.00"}
        /\ ret.time_horizons = <<1006, 2000>> =>
               DOMAIN ret.metric_stat_map = {"predicted_path_deviation_1.01",
                                             "predicted_path_deviation_2.00"}

\* the names of two horizons with the same rendering were assigned
C20_Witness ==
    /\ Named
    /\ Cardinality(DOMAIN ret.metric_stat_map) < Len(ret.time_horizons)

----------------------------------------------------------------------------
(* Properties of the eviction on its own, under SpecEvict *)

\* C19: when deleteOldObjects has run twice in a row with the same stamp and
\* time delay, the store, the history path map and the debug cache after the
\* second run equal those the second run started from.
C19_SecondRunChangesNothing ==
    Len(ret.found) = 2 => Maps = ret.found[2]

\* the second run is done, and the first had evicted entries and purged a key
\* that had a debug entry
C19_Witness ==
    /\ Len(ret.found) = 2
    /\ \E uuid \in DOMAIN object_map_ : object_map_[uuid] # ret.found[1].object_map[uuid]
    /\ \E uuid \in DOMAIN ret.found[1].debug_target_object : uuid \notin DOMAIN object_map_

----------------------------------------------------------------------------
(* Properties of the lookups, under SpecLookup *)

\* the stored stamps at minimum distance from a stamp, found by a scan of every entry
Nearest(stamp) ==
    {c \in AllStamps(object_map_) :
        \A t \in AllStamps(object_map_) : Abs(c - stamp) <= Abs(t - stamp)}

\* C4: on a store that is not empty getClosestStamp(q) returns a stamp held by
\* some track whose distance to q is the minimum over all stamps of all tracks.
C4_ClosestStampIsNearest ==
    (ret.op = "getClosestStamp" /\ DOMAIN object_map_ # {}) =>
        ret.value \in Nearest(ret.stamp)

\* two tracks, the answer is the predecessor of the lower bound of a track
C4_Witness ==
    /\ ret.op = "getClosestStamp"
    /\ Cardinality(DOMAIN object_map_) = 2
    /\ ret.value < ret.stamp
    /\ \E uuid \in DOMAIN object_map_ :
           /\ ret.value \in DOMAIN object_map_[uuid]
           /\ \E t \in DOMAIN object_map_[uuid] : t > ret.stamp

\* the last call was getObjectByStamp on a uuid of the store
LookedUpKnown == ret.op = "getObjectByStamp" /\ ret.uuid \in DOMAIN object_map_

\* C5 as claimed: for a uuid of the store getObjectByStamp(uuid, t) returns an
\* object only if the track of uuid has an entry at exactly t, and nothing
\* whenever the track has no entry at exactly t.
C5_ExactMatch ==
    LookedUpKnown =>
        (ret.result.kind = "value" <=> ret.stamp \in DOMAIN object_map_[ret.uuid])

\* C5 as amended: for a uuid of the store getObjectByStamp(uuid, t) returns the
\* entry of the track of uuid at a stored stamp c closest to t over all tracks
\* when the track has an entry at c, and nothing when it has none; whenever the
\* track has an entry at exactly t it returns that entry.
C5_ClosestMatch ==
    LookedUpKnown =>
        LET stamp_and_objects == object_map_[ret.uuid]
        IN  /\ ret.result.kind \in {"value", "nullopt"}
            /\ ret.result.kind = "value" =>
                   \E c \in Nearest(ret.stamp) \cap DOMAIN stamp_and_objects :
                       ret.result.object = stamp_and_objects[c]
            /\ ret.result.kind = "nullopt" =>
                   Nearest(ret.stamp) \ DOMAIN stamp_and_objects # {}
            /\ ret.stamp \in DOMAIN stamp_and_objects =>
                   /\ ret.result.kind = "value"
                   /\ ret.result.object = stamp_and_objects[ret.stamp]

\* an object was returned for a stamp at which the track has no entry
C5_Witness ==
    /\ LookedUpKnown
    /\ ret.result.kind = "value"
    /\ ret.stamp \notin DOMAIN object_map_[ret.uuid]

\* C6: getObjectsByStamp(q) returns, for one closest stamp c, exactly one object
\* per uuid whose track has an entry at exactly c, each the object stored at c,
\* and none for any other uuid; on a store that is not empty it returns at
\* least one object.
C6_BatchAtClosest ==
    ret.op = "getObjectsByStamp" =>
        LET objects == ret.result.objects
            At(c)   == {uuid \in DOMAIN object_map_ : c \in DOMAIN object_map_[uuid]}
        IN  /\ \A k, m \in 1..Len(objects) :
                   k # m => objects[k].object_id # objects[m].object_id
            /\ DOMAIN object_map_ # {} =>
                   /\ Len(objects) > 0
                   /\ \E c \in Nearest(ret.stamp) :
                          /\ {objects[k].object_id : k \in 1..Len(objects)} = At(c)
                          /\ \A k \in 1..Len(objects) :
                                 objects[k] = object_map_[objects[k].object_id][c]
            /\ DOMAIN object_map_ = {} => objects = <<>>

\* of two tracks one has no entry at the closest stamp, though it has later
\* ones, and is left out
C6_Witness ==
    /\ ret.op = "getObjectsByStamp"
    /\ Cardinality(DOMAIN object_map_) = 2
    /\ Len(ret.result.objects) = 1
    /\ ret.stamp \notin AllStamps(object_map_)
    /\ \E uuid \in DOMAIN object_map_ :
           /\ uuid # ret.result.objects[1].object_id
           /\ \E t \in DOMAIN object_map_[uuid] : t > ret.stamp

\* the store that holds the track of uuid and no other
Only(uuid) == Put(EmptyMap, uuid, object_map_[uuid])

\* the stores in which the track of uuid is the one of object_map_: no other
\* track, or any track for another key
SameTrackStores(uuid) ==
    {Only(uuid)}
    \cup UNION {{Put(Only(uuid), other, track) : track \in Tracks(other)} :
                   other \in Uuids \ {uuid}}

\* C28 as claimed: for a key and a stamp, getObjectByStamp returns the same in
\* every store in which the track of the key is the same, whatever the tracks
\* of the other keys hold.
C28_LookupIgnoresOtherTracks ==
    LookedUpKnown =>
        \A other \in SameTrackStores(ret.uuid) :
            \A order \in Orders(DOMAIN other) :
                getObjectByStamp(other, order, ret.uuid, ret.stamp) = ret.result

\* what a track alone gives for a closest stamp c: its entry at c, or nothing
OwnEntry(track, c) ==
    IF c \in DOMAIN track THEN [kind |-> "value", object |-> track[c]]
    ELSE [kind |-> "nullopt"]

\* C28 as amended: the result of getObjectByStamp is determined by the track
\* of the key and the closest stamp that getClosestStamp, which scans all
\* tracks, resolves the stamp to (the entry of the track at that closest
\* stamp, or nothing), so it is the same in every two stores in which the
\* track of the key is the same and the stamp resolves to the same closest
\* stamp; when the track of the key has an entry at exactly the stamp, the
\* result is that entry, whatever the tracks of the other keys hold.
C28_LookupDependsOnClosestStampOnly ==
    LookedUpKnown =>
        /\ ret.result = OwnEntry(object_map_[ret.uuid], ret.closest)
        /\ ret.stamp \in DOMAIN object_map_[ret.uuid] =>
               ret.result = OwnEntry(object_map_[ret.uuid], ret.stamp)

\* an object was returned from a track that has no entry at the stamp, over a
\* store of two tracks, and the stamp resolves to another closest stamp in a
\* store with the same track
C28_Witness ==
    /\ LookedUpKnown
    /\ Cardinality(DOMAIN object_map_) = 2
    /\ ret.result.kind = "value"
    /\ ret.stamp \notin DOMAIN object_map_[ret.uuid]
    /\ \E other \in SameTrackStores(ret.uuid) :
           \E order \in Orders(DOMAIN other) :
               getClosestStamp(other, order, ret.stamp) # ret.closest

\* C29 as claimed: the stamp getClosestStamp(q) resolves, and with it the set
\* of objects getObjectsByStamp(q) returns, is the same in every order in
\* which the tracks are visited, also when stamps of different tracks are
\* equally distant from q on either side.
C29_ClosestStampIgnoresOrder ==
    /\ ret.op = "getClosestStamp" =>
           \A order \in Orders(DOMAIN object_map_) :
               getClosestStamp(object_map_, order, ret.stamp) = ret.value
    /\ ret.op = "getObjectsByStamp" =>
           \A order \in Orders(DOMAIN object_map_) :
               Range(getObjectsByStamp(object_map_, order, ret.stamp).objects)
                   = Range(ret.result.objects)

\* C8 as claimed: a lookup of a uuid that is not in the store never raises:
\* getObjectByStamp returns nothing and hasPassedTime returns false.
C8_UnknownKeyNotFound ==
    /\ (ret.op = "getObjectByStamp" /\ ret.uuid \notin DOMAIN object_map_) =>
           ret.result.kind = "nullopt"
    /\ (ret.op = "hasPassedTime" /\ ret.uuid \notin DOMAIN object_map_) =>
           ret.value = FALSE

----------------------------------------------------------------------------
(* Cycles: one object ingested, then calculate, the stamps a delay apart at most *)

\* the objects of a checked label
CheckedObjects == UNION {ObjectsOf(uuid) : uuid \in Uuids}

\* the header stamps of the next cycle: any for the first, later than the last
\* one by at most the time delay for the others
CycleStamps ==
    IF ret.op = "init" THEN Times
    ELSE {t \in Times : /\ t > current_stamp_
                        /\ t <= current_stamp_ + getTimeDelay(prediction_time_horizons)}

\* the three maps after the eviction d and the update of the history paths
SetMaps(d) ==
    /\ object_map_' = d.object_map
    /\ history_path_map_' = updateHistoryPath(d.object_map, d.history_path_map,
                                              smoothing_window_size)
    /\ debug_target_object_' = d.debug_target_object

\* the debug cache and the outcome after calculate returned r
CalculateInto(r, metric, first) ==
    /\ debug_target_object_' = r.debug
    /\ ret' = [op |-> "calculate", metric |-> metric, kind |-> r.kind, first |-> first,
               map |-> IF r.kind = "value" THEN r.map ELSE EmptyMap]

\* setPredictedObjects with the one object of the cycle; ret.first is the
\* header stamp of the first cycle
CycleIngest(object, stamp) ==
    /\ ret.op \in {"init", "calculate"}
    /\ current_stamp_' = stamp
    /\ SetMaps(deleteOldObjects(
                   IngestAll(object_map_, filterDeviationCheckObjects(<<object>>), stamp),
                   history_path_map_, debug_target_object_, stamp,
                   getTimeDelay(prediction_time_horizons)))
    /\ ret' = [op |-> "setPredictedObjects", kind |-> "void",
               first |-> IF ret.op = "init" THEN stamp ELSE ret.first]
    /\ UNCHANGED prediction_time_horizons

\* calculate(metric) of the cycle
CycleCalculate(metric, order, path_order) ==
    /\ ret.op # "init"
    /\ CalculateInto(calculate(object_map_, history_path_map_, debug_target_object_,
                               current_stamp_, prediction_time_horizons, metric, order,
                               path_order),
                     metric, ret.first)
    /\ UNCHANGED <<object_map_, history_path_map_, current_stamp_,
                   prediction_time_horizons>>

NextCycle ==
    \/ \E stamp \in CycleStamps, object \in CheckedObjects : CycleIngest(object, stamp)
    \/ \E metric \in Metrics, order \in Orders(DOMAIN object_map_), path_order \in PathOrders :
           CycleCalculate(metric, order, path_order)

SpecCycle == InitIngest /\ [][NextCycle]_vars

----------------------------------------------------------------------------
(* Properties of the cycles, under SpecCycle *)

\* C21 as claimed: from the empty store, one object ingested in every cycle,
\* the header stamps increasing by at most the time delay: calculate returns
\* a result in every cycle whose stamp is at least the delay after the stamp of
\* the first cycle, and in no cycle before.
C21_ReadyAfterDelay ==
    Calculated =>
        IF current_stamp_ >= ret.first + getTimeDelay(prediction_time_horizons)
        THEN ret.kind = "value"
        ELSE ret.kind = "nullopt"

----------------------------------------------------------------------------
(* averageFilterPath on its own, applied to paths that stop and turn *)

\* the displacements from one pose to the next, in position units: none, the
\* threshold of the orientation pass (0.1 distance units), one distance unit
\* along x, one along y
TurnSteps == {<<0, 0>>, <<Unit \div 10, 0>>, <<Unit, 0>>, <<0, Unit>>}

\* the heading of every input pose: none of the bearings between two poses
InputHeading == Heading(0, 0 - 1)

\* the pose at (x, y) followed by one pose per step
RECURSIVE PathFrom(_, _, _)
PathFrom(x, y, steps) ==
    << MkPose([x |-> x, y |-> y, finite |-> TRUE], InputHeading) >>
    \o (IF steps = <<>> THEN <<>>
        ELSE PathFrom(x + Head(steps)[1], y + Head(steps)[2], Tail(steps)))

\* the paths of one pose up to MaxPoses - 1 poses
TurnPaths ==
    UNION {{PathFrom(0, 0, steps) : steps \in [1..n -> TurnSteps]} : n \in 0..(MaxPoses - 2)}

\* the window sizes: one pose, and one pose to either side
TurnWindowSizes == {1, 2}

InitTurn ==
    /\ object_map_ = EmptyMap
    /\ history_path_map_ = EmptyMap
    /\ debug_target_object_ = EmptyMap
    /\ current_stamp_ = DefaultStamp
    /\ prediction_time_horizons \in DelayConfigs
    /\ \E path \in TurnPaths, window_size \in TurnWindowSizes :
           ret = [op |-> "init", path |-> path, window_size |-> window_size]

NextTurn == AverageFilterPath

SpecTurn == InitTurn /\ [][NextTurn]_vars

----------------------------------------------------------------------------
(* Properties of the orientation pass, under SpecTurn *)

\* the smoothed poses k and m are less than 0.1 distance units apart
Close(k, m) ==
    CloserThanThreshold(ret.filtered_path[k].position, ret.filtered_path[m].position)

\* the bearing from the smoothed pose k to the next one
BearingToNext(k) ==
    calcAzimuthAngle(ret.filtered_path[k].position, ret.filtered_path[k + 1].position)

\* the last pose has the orientation of the one before it, and the pose of a
\* path of one pose keeps its orientation
LastAndSingle ==
    /\ Len(ret.path) > 1 =>
           ret.filtered_path[Len(ret.path)].orientation
               = ret.filtered_path[Len(ret.path) - 1].orientation
    /\ Len(ret.path) = 1 => ret.filtered_path[1].orientation = ret.path[1].orientation

\* C24 as claimed: for each pose except the last, the orientation is copied
\* from the pose before when the averaged pose and the NEXT averaged pose are
\* less than 0.1 apart, and is the bearing to the next pose otherwise; the
\* last pose takes the orientation of the second-to-last; a single pose keeps
\* its orientation.  (1-based; the first pose has no pose before it and is
\* required to hold the bearing only when the next pose is not close.)
C24_CopiedWhenNextIsClose ==
    Smoothed =>
        /\ \A k \in 1..(Len(ret.path) - 1) :
               IF Close(k, k + 1)
               THEN k > 1 => ret.filtered_path[k].orientation
                                 = ret.filtered_path[k - 1].orientation
               ELSE ret.filtered_path[k].orientation = BearingToNext(k)
        /\ LastAndSingle

\* C24 as amended: the orientation of a pose that has a pose before it is
\* copied from that pose (as the pass left it) when the averaged pose and the
\* averaged pose BEFORE it are less than 0.1 apart; every other pose except the
\* last (the first pose always) gets the bearing from it to the next averaged
\* pose, which is yaw 0 when the two coincide; the last pose takes the
\* orientation of the second-to-last; a single pose keeps its orientation.
C24_CopiedWhenPreviousIsClose ==
    Smoothed =>
        /\ \A k \in 1..(Len(ret.path) - 1) :
               IF k > 1 /\ Close(k - 1, k)
               THEN ret.filtered_path[k].orientation = ret.filtered_path[k - 1].orientation
               ELSE /\ ret.filtered_path[k].orientation = BearingToNext(k)
                    /\ ret.filtered_path[k].position = ret.filtered_path[k + 1].position
                           => ret.filtered_path[k].orientation = Heading(1, 0)
        /\ LastAndSingle

\* a path was smoothed in which a pose is far from the pose before it and
\* close to the pose after it, and another is close to the pose before it and
\* far from the pose after it
C24_Witness ==
    /\ Smoothed
    /\ \E k \in 2..(Len(ret.path) - 1) : ~Close(k - 1, k) /\ Close(k, k + 1)
    /\ \E k \in 2..(Len(ret.path) - 1) : Close(k - 1, k) /\ ~Close(k, k + 1)

----------------------------------------------------------------------------
(* The walk along one predicted path, applied to the stores *)

\* the time steps of the walked path and the horizons of the walk
WalkTimeSteps == {1, 2}

WalkHorizons == {1, 2}

\* a predicted path of four different poses
WalkedPath(time_step) ==
    PredictedPath(time_step, [j \in 1..4 |-> MkPose(Point(j - 1, 0 - 1), Heading(1, 0))])

\* lines 241-264 for one predicted path of an object uuid of a batch with
\* header stamp: ret.pairs is what the walk recorded
WalkOnePath(order, uuid, stamp, time_step, time_horizon) ==
    /\ ret.op = "init"
    /\ ret' = [op |-> "walk", order |-> order, uuid |-> uuid, stamp |-> stamp,
               predicted_path |-> WalkedPath(time_step), time_horizon |-> time_horizon,
               pairs |-> WalkPath(object_map_, order, uuid, stamp, WalkedPath(time_step),
                                  time_horizon, 0)]
    /\ UNCHANGED <<object_map_, history_path_map_, debug_target_object_, current_stamp_,
                   prediction_time_horizons>>

\* the header stamps of the batches walked: the current stamp less a duration
\* up to the time delay
WalkStamps ==
    {current_stamp_ - d : d \in 0..getTimeDelay(prediction_time_horizons)}

NextWalk ==
    \E order \in Orders(DOMAIN object_map_), uuid \in Uuids, stamp \in WalkStamps,
       time_step \in WalkTimeSteps, time_horizon \in WalkHorizons :
        WalkOnePath(order, uuid, stamp, time_step, time_horizon)

SpecWalk == InitLookup /\ [][NextWalk]_vars

----------------------------------------------------------------------------
(* Properties of the walk, under SpecWalk *)

Walked == ret.op = "walk"

\* the stamp the pose of index j (0-based) is compared at
StampOfPose(j) == ret.stamp + j * ret.predicted_path.time_step

\* the history lookup for the pose of index j
LookupOfPose(j) == getObjectByStamp(object_map_, ret.order, ret.uuid, StampOfPose(j))

\* the pose of index j is not beyond the horizon, the oldest stamp of the
\* object is not later than the stamp of the pose, and the lookup returns a
\* snapshot
Recorded(j) ==
    /\ j * ret.predicted_path.time_step <= ret.time_horizon
    /\ ret.uuid \in DOMAIN object_map_
    /\ Min(DOMAIN object_map_[ret.uuid]) <= StampOfPose(j)
    /\ LookupOfPose(j).kind = "value"

\* the indices of the recorded poses, in increasing order
RecordedSeq == SortedSeq({j \in 0..(Len(ret.predicted_path.path) - 1) : Recorded(j)})

\* C26: the walk records, in increasing index order, exactly the poses j with
\* j * s <= h (the pose with j * s = h included, none beyond it) for which the
\* oldest stamp of the object is <= batch stamp + j * s and the history lookup
\* at that stamp returns a snapshot, each with the pose of that snapshot; a
\* pose that misses is skipped and the poses after it are still compared.
C26_WalkRecordsUpToHorizon ==
    Walked =>
        ret.pairs = [k \in 1..Len(RecordedSeq) |->
                        << ret.predicted_path.path[RecordedSeq[k] + 1],
                           LookupOfPose(RecordedSeq[k]).object.pose >>]

\* a walk stopped before the end of the path after it compared the pose
\* exactly at the horizon, and recorded a pose after one it had to skip
C26_Witness ==
    /\ Walked
    /\ \E j \in 1..(Len(ret.predicted_path.path) - 2) :
           /\ j * ret.predicted_path.time_step = ret.time_horizon
           /\ Recorded(j)
           /\ ~Recorded(j - 1)
    /\ \E j \in 0..(Len(ret.predicted_path.path) - 1) :
           /\ j * ret.predicted_path.time_step <= ret.time_horizon
           /\ ret.uuid \in DOMAIN object_map_
           /\ Min(DOMAIN object_map_[ret.uuid]) <= StampOfPose(j)
           /\ LookupOfPose(j).kind = "nullopt"

====
